---- MODULE Spec2Model ----
(***************************************************************************)
(* A model of the resource-aware serving core of llm-engine:               *)
(*   - ResponseCache      (src/app/core/cache.py)                          *)
(*   - MemoryManager      (src/app/core/memory_manager.py)                 *)
(*   - ModelManager       (src/app/core/model_manager.py)                  *)
(*   - AsyncInferenceService (src/app/core/async_inference.py)             *)
(* Each component has its own specification (SpecCache, SpecMem, SpecMgr,  *)
(* SpecSvc, SpecStream, SpecKey; SpecSvcLive and SpecStreamLive add the    *)
(* fairness of the event loop) over the shared variables; a component's    *)
(* actions leave the variables of the other components unchanged.          *)
(***************************************************************************)
EXTENDS Integers, Sequences, FiniteSets, TLC

(***************************************************************************)
(* Bounds of the model.                                                    *)
(***************************************************************************)
\* max_size of the ResponseCache under study (settings.max_cache_size scaled down).
MaxSize == 2
\* ttl of the ResponseCache in clock ticks (settings.cache_ttl scaled down).
TTL == 1
\* hits, misses and evictions are counted up to MaxCount.
MaxCount == 1

\* The clock (time.time()) runs from 0 to MaxTime: an entry set at time 0 expires
\* at MaxTime, every later entry lives on.
MaxTime == TTL + 1

\* Resident bytes of a model run from 1 to MaxUsage (units of memory).
MaxUsage == 3
\* max_memory_usage, the budget, runs from 1 to MaxBudget.
MaxBudget == 2
\* access_count is counted up to MaxAccess.
MaxAccess == 1

\* At most MaxLoads handles are ever created by the Model Loader.
MaxLoads == 2
\* At most MaxStreams streaming engine calls run at a time.
MaxStreams == 1

\* MaxThreads threads call the ModelManager.
MaxThreads == 2
\* The texts have at most MaxText code points.
MaxText == 4

\* max_tokens and temperature of a call run from 1 to MaxParam.
MaxParam == 2

\* settings.async_worker_threads, the max_workers of thread_pool.
async_worker_threads == 16

\* The capacity of request_queue (settings.async_queue_size scaled down).
QueueSize == 2
\* At most MaxCalls generate_text calls are made: one more than the queue holds.
MaxCalls == QueueSize + 1
\* An engine stream yields at most MaxTokens tokens.
MaxTokens == 1
\* generate_stream is called at most MaxRuns times, one call after the other.
MaxRuns == 2

\* None of Python.
None == "None"

\* Cache keys (fingerprints).
Keys == {"A", "B", "C"}
\* Cached values (generation results).
Values == {"v1", "v2"}
\* Model names.
ModelNames == {"m1", "m2"}
\* Model names that sanitize_model_name maps to one name of the Model Loader.
LifeNames == {"m1", "M1"}
\* Prompts.
Prompts == {"p1", "p2"}
\* The prompts of the generate_text calls of the routers.
SvcPrompts == {"p1"}

VARIABLES
    now,        \* time.time(), in ticks
    cache,      \* ResponseCache.cache: the OrderedDict, oldest first, of [key, value, timestamp]
    hits,       \* ResponseCache.hits
    misses,     \* ResponseCache.misses
    evictions,  \* ResponseCache.evictions
    cacheOp,    \* the last ResponseCache call: its name, key, result and evicted key, the age
                \* the key's entry had at the call and the set the call came right after
    lastSet,    \* history: the set call [key, value, at] after which no call was made yet
    recency,    \* history: the stored keys by their most recent successful get or set, oldest first
    setRun,     \* history: the keys set, in order, since the cache was constructed or
                \* cleared, while every call was a set of a key not set before;
                \* Broken otherwise
    model_memory_usage, \* MemoryManager.model_memory_usage: name -> resident bytes
    model_last_used,    \* MemoryManager.model_last_used: the dict, in insertion order,
                        \* of [name, last_used]
    model_access_count, \* MemoryManager.model_access_count: name -> count
    max_memory_usage,   \* MemoryManager.max_memory_usage, the budget
    memOp,      \* the last MemoryManager call: its name, model, result, and for
                \* check_memory_pressure the flag and the list returned
    models,         \* ModelManager.models (and the keys of model_info): name -> handle
    loaded_models,  \* ModelLoader.loaded_models: sanitized name -> handle
    next_handle,    \* the number of handles the Model Loader has created
    released,       \* the handles whose engine resources an unload has released
    executing,      \* the engine calls running in the thread pool: [model, handle, kind]
    mgrOp,          \* the last ModelManager or inference step: its name, model and result
    calls,          \* the generate_text calls made, in order: [model_name, prompt, by_keyword,
                    \* max_tokens, temperature, key, from_stream, state, future, result]
    request_queue,  \* AsyncInferenceService.request_queue: the calls queued, oldest first
    putters,        \* the calls suspended in request_queue.put on a full queue, oldest first
    woken,          \* the calls whose put was woken and has not run yet
    task,           \* AsyncInferenceService._processing_task: [state, call, outcome]
    started,        \* AsyncInferenceService._started
    pool_down,      \* thread_pool.shutdown was called
    stream,         \* the generate_stream generator under study: [state, model_name, call, out]
    enqueued,       \* history: the calls in the order they entered request_queue
    served,         \* history: the calls in the order the dispatcher took them up
    fingerprints,   \* the two generate_text calls whose cache keys are compared
    lock,           \* ModelManager.lock: the thread that holds it (0: nobody)
    callers,        \* the threads calling the ModelManager: thread -> [state, op, model]
    sweep,          \* the cleanup_expired call of the CacheCleaner thread: its position,
                    \* current_time, keys_to_remove and what became of it
    usage,          \* the token estimates of a prompt and a generated text
    memory_lock,    \* MemoryManager.lock: the thread that holds it (0: nobody)
    consumers       \* the _process_requests tasks that are alive

cacheVars == <<cache, hits, misses, evictions, cacheOp, lastSet, recency, setRun>>

memVars == <<model_memory_usage, model_last_used, model_access_count,
             max_memory_usage, memOp>>

mgrVars == <<models, loaded_models, next_handle, released, executing, mgrOp>>

svcVars == <<calls, request_queue, putters, woken, task, started, pool_down, stream,
             enqueued, served, fingerprints>>

\* The callers of the ModelManager, the sweep of the CacheCleaner, the token
\* estimates, the lock of the MemoryManager and the number of dispatcher
\* tasks.
concVars == <<lock, callers, sweep, usage, memory_lock, consumers>>

vars == <<now, cacheVars, memVars, mgrVars, svcVars, concVars>>

(***************************************************************************)
(* Sequence helpers.                                                       *)
(***************************************************************************)
\* The elements of a sequence.
Range(s) == {s[i] : i \in 1..Len(s)}

\* s without its i-th element.
RemoveAt(s, i) == SubSeq(s, 1, i - 1) \o SubSeq(s, i + 1, Len(s))

\* The keys of the OrderedDict, in its order.
CacheKeys(c) == [i \in 1..Len(c) |-> c[i].key]

\* The position of key k in the OrderedDict (k is stored).
IndexOf(c, k) == CHOOSE i \in 1..Len(c) : c[i].key = k

\* key in self.cache
Stored(c, k) == \E i \in 1..Len(c) : c[i].key = k

\* The set of keys of the OrderedDict.
StoredKeys(c) == {c[i].key : i \in 1..Len(c)}

\* del self.cache[key]
DelKey(c, k) == IF Stored(c, k) THEN RemoveAt(c, IndexOf(c, k)) ELSE c

\* self.cache.move_to_end(key)
MoveToEnd(c, k) == LET i == IndexOf(c, k) IN Append(RemoveAt(c, i), c[i])

\* self.cache[key] = (value, time.time()): an existing key keeps its place,
\* a new key goes last.
Assign(c, k, v, t) ==
    IF Stored(c, k)
    THEN [c EXCEPT ![IndexOf(c, k)] = [key |-> k, value |-> v, timestamp |-> t]]
    ELSE Append(c, [key |-> k, value |-> v, timestamp |-> t])

\* time.time() - timestamp > self.ttl
Expired(e, t) == t - e.timestamp > TTL

\* The history of recency: key k was just read or written with success.
Touch(r, k) == Append(SelectSeq(r, LAMBDA x : x # k), k)

\* The history of recency, cut down to the keys still stored in c.
Keep(r, c) == SelectSeq(r, LAMBDA x : Stored(c, x))

\* Neither a key nor a record.
NoSet == [key |-> None, value |-> None, at |-> 0]

\* The age of no entry.
NoAge == 0 - 1

\* The age at time t of the entry stored for key k, NoAge when there is none.
AgeOf(c, k, t) == IF Stored(c, k) THEN t - c[IndexOf(c, k)].timestamp ELSE NoAge

\* The record of a ResponseCache call.
Op(name, k, ret, ev, age, after) ==
    [op |-> name, key |-> k, ret |-> ret, evicted |-> ev, age |-> age, after |-> after]

\* The record of a call without a key.
Op0(name, ret) == Op(name, None, ret, None, NoAge, NoSet)

\* The run of sets after a call that is no set of a new key.
Broken == <<None>>

(***************************************************************************)
(* ResponseCache.                                                          *)
(***************************************************************************)
\* ResponseCache._evict_oldest: the cache after it (the first key of the
\* OrderedDict goes, if there is one).
\* (mutant: the last key goes)
EvictNewest(c) == IF c # <<>> THEN SubSeq(c, 1, Len(c) - 1) ELSE c

EvictOldest(c) == IF c # <<>> THEN Tail(c) ELSE c

\* The condition of ResponseCache.set for evicting.
\* (mutant: evict only when the size is over the limit)
NeedsEvictionOver(c) == Len(c) > MaxSize

NeedsEviction(c) == Len(c) >= MaxSize

\* The cache after a hit of ResponseCache.get on key k.
\* (mutant: a hit leaves the order alone)
HitOrderStale(c, k) == c

HitOrder(c, k) == MoveToEnd(c, k)

\* Whether ResponseCache.get treats the stored entry e as expired at time t.
\* (mutant: entries never expire on get)
GetExpiredNever(e, t) == FALSE

GetExpired(e, t) == Expired(e, t)

\* The entry ResponseCache.set stores for (key, value) at time t.
\* (mutant: a set of a stored key keeps the old value)
SetEntryKeepOld(c, k, v, t) ==
    IF Stored(c, k) THEN MoveToEnd(c, k) ELSE Assign(c, k, v, t)

SetEntry(c, k, v, t) == MoveToEnd(Assign(c, k, v, t), k)

\* Whether ResponseCache.get(key) is a hit in the cache c at time t.
GetHits(c, k, t) == Stored(c, k) /\ ~GetExpired(c[IndexOf(c, k)], t)

\* ResponseCache.get(key): what the call does to the cache.
GetCall(k) ==
    IF ~Stored(cache, k)
    THEN /\ misses' = misses + 1
         /\ cacheOp' = Op("get", k, None, None, NoAge, lastSet)
         /\ lastSet' = NoSet
         /\ setRun' = Broken
         /\ UNCHANGED <<cache, hits, evictions, recency>>
    ELSE LET e == cache[IndexOf(cache, k)] IN
         IF GetExpired(e, now)
         THEN /\ cache' = DelKey(cache, k)
              /\ misses' = misses + 1
              /\ cacheOp' = Op("get", k, None, None, AgeOf(cache, k, now), lastSet)
              /\ lastSet' = NoSet
              /\ recency' = Keep(recency, cache')
              /\ setRun' = Broken
              /\ UNCHANGED <<hits, evictions>>
         ELSE /\ cache' = HitOrder(cache, k)
              /\ hits' = hits + 1
              /\ cacheOp' = Op("get", k, e.value, None, AgeOf(cache, k, now), lastSet)
              /\ lastSet' = NoSet
              /\ recency' = Touch(recency, k)
              /\ setRun' = Broken
              /\ UNCHANGED <<misses, evictions>>

\* ResponseCache.get(key)
Get(k) ==
    /\ IF GetHits(cache, k, now) THEN hits < MaxCount ELSE misses < MaxCount
    /\ GetCall(k)
    /\ UNCHANGED <<now, memVars, mgrVars, svcVars, concVars>>

\* ResponseCache.set(key, value), with ResponseCache._evict_oldest: what the
\* call does to the cache.
SetCall(k, v) ==
    LET evict == NeedsEviction(cache) /\ cache # <<>>
        c1    == IF NeedsEviction(cache) THEN EvictOldest(cache) ELSE cache
    IN  /\ cache' = SetEntry(c1, k, v, now)
        /\ evictions' = IF evict THEN evictions + 1 ELSE evictions
        /\ cacheOp' = Op("set", k, "True", IF evict THEN cache[1].key ELSE None,
                          AgeOf(cache, k, now), NoSet)
        /\ lastSet' = [key |-> k, value |-> v, at |-> now]
        /\ recency' = Keep(Touch(recency, k), cache')
        /\ setRun' = IF setRun # Broken /\ k \notin Range(setRun)
                     THEN Append(setRun, k) ELSE Broken
        /\ UNCHANGED <<hits, misses>>

\* ResponseCache.set(key, value)
Set(k, v) ==
    /\ (NeedsEviction(cache) /\ cache # <<>>) => evictions < MaxCount
    /\ SetCall(k, v)
    /\ UNCHANGED <<now, memVars, mgrVars, svcVars, concVars>>

\* ResponseCache.delete(key): what the call does to the cache.
DeleteCall(k) ==
    /\ cache' = DelKey(cache, k)
    /\ cacheOp' = Op("delete", k, IF Stored(cache, k) THEN "True" ELSE "False", None,
                      AgeOf(cache, k, now), NoSet)
    /\ lastSet' = NoSet
    /\ recency' = Keep(recency, cache')
    /\ setRun' = Broken
    /\ UNCHANGED <<hits, misses, evictions>>

\* ResponseCache.delete(key)
Delete(k) ==
    /\ DeleteCall(k)
    /\ UNCHANGED <<svcVars, concVars, now, memVars, mgrVars>>

\* ResponseCache.clear()
Clear ==
    /\ cache' = <<>>
    /\ hits' = 0
    /\ misses' = 0
    /\ evictions' = 0
    /\ cacheOp' = Op0("clear", None)
    /\ lastSet' = NoSet
    /\ recency' = <<>>
    /\ setRun' = <<>>
    /\ UNCHANGED <<svcVars, concVars, now, memVars, mgrVars>>

\* (mutant: an entry is removed as soon as its age reaches ttl)
KeysToRemoveAtTtl(c, t) == {c[i].key : i \in {j \in 1..Len(c) : t - c[j].timestamp >= TTL}}

\* keys_to_remove of cleanup_expired at time t: the keys of the entries with
\* current_time - timestamp > self.ttl.
KeysToRemove(c, t) == {c[i].key : i \in {j \in 1..Len(c) : Expired(c[j], t)}}

\* ResponseCache.cleanup_expired(), run as one step
CleanupExpired ==
    LET keys_to_remove == KeysToRemove(cache, now)
    IN  /\ cache' = SelectSeq(cache, LAMBDA e : e.key \notin keys_to_remove)
        /\ cacheOp' = Op0("cleanup_expired", Cardinality(keys_to_remove))
        /\ lastSet' = NoSet
        /\ recency' = Keep(recency, cache')
        /\ setRun' = Broken
            /\ UNCHANGED <<svcVars, concVars, now, hits, misses, evictions, memVars, mgrVars>>

\* time.time() advances between two ResponseCache calls.
TickCache ==
    /\ now < MaxTime
    /\ now' = now + 1
    /\ cacheOp' = Op0("tick", None)
    /\ UNCHANGED <<cache, hits, misses, evictions, lastSet, recency, setRun, memVars, mgrVars,
                   svcVars, concVars>>

InitCache ==
    /\ cache = <<>>
    /\ hits = 0
    /\ misses = 0
    /\ evictions = 0
    /\ cacheOp = Op0("init", None)
    /\ lastSet = NoSet
    /\ recency = <<>>
    /\ setRun = <<>>

NextCache ==
    \/ \E k \in Keys : Get(k)
    \/ \E k \in Keys, v \in Values : Set(k, v)
    \/ \E k \in Keys : Delete(k)
    \/ Clear
    \/ CleanupExpired
    \/ TickCache

(***************************************************************************)
(* The CacheCleaner thread.  ResponseCache has no lock: cleanup_expired    *)
(* runs in the thread of the CacheCleaner while the request handlers call  *)
(* get, set and delete in the thread of the event loop, and the            *)
(* interpreter switches threads between two steps of cleanup_expired: two  *)
(* steps of its iteration over self.cache.items(), or two del statements.  *)
(* The calls of the request handlers are taken one whole call at a time.   *)
(***************************************************************************)
\* The cleanup_expired call of the CacheCleaner: where it is, its
\* current_time, the position of its iterator in the OrderedDict, its
\* keys_to_remove, whether the OrderedDict was mutated under the iterator,
\* the exception it raised, and as history whether it deleted an entry
\* that was not expired when it was deleted.
Sweep(s, t, pos, keys, mutated, error, fresh) ==
    [state |-> s, current_time |-> t, pos |-> pos, keys_to_remove |-> keys,
     mutated |-> mutated, error |-> error, removed_fresh |-> fresh]

\* The CacheCleaner sleeps.
NoSweep == Sweep("idle", 0, 0, <<>>, FALSE, "none", FALSE)

\* The keys of the OrderedDict c, in its order.
KeySeq(c) == [i \in 1..Len(c) |-> c[i].key]

\* The iterator of an OrderedDict remembers that a key was added, removed or
\* moved since it was made; a new value for a key in place goes unnoticed.
Noticed(sw, mutated) ==
    IF sw.state = "scanning" THEN [sw EXCEPT !.mutated = @ \/ mutated] ELSE sw

\* cleanup_expired() is called: current_time is read and the iteration over
\* self.cache.items() begins; over an empty dict it is over at once.
SweepStart ==
    /\ sweep.state \in {"idle", "done", "raised"}
    /\ sweep' = Sweep(IF cache = <<>> THEN "deleting" ELSE "scanning", now, 1, <<>>,
                      FALSE, "none", FALSE)
    /\ UNCHANGED <<now, cacheVars, memVars, mgrVars, svcVars, lock, callers, usage,
                   memory_lock, consumers>>

\* The next step of `for key, (value, timestamp) in self.cache.items()`:
\* the iterator raises RuntimeError when the dict was mutated, else the item
\* is looked at; after the last item the loop is over.
SweepNext ==
    /\ sweep.state = "scanning"
    /\ sweep' =
          IF sweep.mutated
          THEN [sweep EXCEPT !.state = "raised", !.error = "RuntimeError"]
          ELSE LET e == cache[sweep.pos] IN
               [sweep EXCEPT
                  !.keys_to_remove = IF Expired(e, sweep.current_time)
                                     THEN Append(@, e.key) ELSE @,
                  !.pos = @ + 1,
                  !.state = IF sweep.pos = Len(cache) THEN "deleting" ELSE "scanning"]
    /\ UNCHANGED <<now, cacheVars, memVars, mgrVars, svcVars, lock, callers, usage,
                   memory_lock, consumers>>

\* The next step of `for key in keys_to_remove: del self.cache[key]`: a key
\* that is gone raises KeyError; after the last key the call returns.
SweepDelete ==
    /\ sweep.state = "deleting"
    /\ IF sweep.keys_to_remove = <<>>
       THEN /\ sweep' = [sweep EXCEPT !.state = "done"]
            /\ UNCHANGED cacheVars
       ELSE LET key == Head(sweep.keys_to_remove) IN
            IF ~Stored(cache, key)
            THEN /\ sweep' = [sweep EXCEPT !.state = "raised", !.error = "KeyError"]
                 /\ UNCHANGED cacheVars
            ELSE /\ sweep' = [sweep EXCEPT
                                !.keys_to_remove = Tail(@),
                                !.state = IF Tail(sweep.keys_to_remove) = <<>>
                                          THEN "done" ELSE "deleting",
                                !.removed_fresh =
                                    @ \/ ~Expired(cache[IndexOf(cache, key)], now)]
                 /\ cache' = DelKey(cache, key)
                 /\ cacheOp' = Op0("cleanup_expired", 1)
                 /\ lastSet' = NoSet
                 /\ recency' = Keep(recency, cache')
                 /\ setRun' = Broken
                 /\ UNCHANGED <<hits, misses, evictions>>
    /\ UNCHANGED <<now, memVars, mgrVars, svcVars, lock, callers, usage,
                   memory_lock, consumers>>

\* A request handler calls ResponseCache.get(key) between two steps of the
\* CacheCleaner.
HandlerGet(k) ==
    /\ IF GetHits(cache, k, now) THEN hits < MaxCount ELSE misses < MaxCount
    /\ GetCall(k)
    /\ sweep' = Noticed(sweep, KeySeq(cache') # KeySeq(cache))
    /\ UNCHANGED <<now, memVars, mgrVars, svcVars, lock, callers, usage,
                   memory_lock, consumers>>

\* A request handler calls ResponseCache.set(key, value) between two steps of
\* the CacheCleaner.
HandlerSet(k, v) ==
    /\ (NeedsEviction(cache) /\ cache # <<>>) => evictions < MaxCount
    /\ SetCall(k, v)
    /\ sweep' = Noticed(sweep, (NeedsEviction(cache) /\ cache # <<>>)
                                  \/ KeySeq(cache') # KeySeq(cache))
    /\ UNCHANGED <<now, memVars, mgrVars, svcVars, lock, callers, usage,
                   memory_lock, consumers>>

\* A request handler calls ResponseCache.delete(key) between two steps of the
\* CacheCleaner.
HandlerDelete(k) ==
    /\ DeleteCall(k)
    /\ sweep' = Noticed(sweep, KeySeq(cache') # KeySeq(cache))
    /\ UNCHANGED <<now, memVars, mgrVars, svcVars, lock, callers, usage,
                   memory_lock, consumers>>

\* The CacheCleaner thread and the request handlers.
NextSweep ==
    \/ SweepStart
    \/ SweepNext
    \/ SweepDelete
    \/ \E k \in Keys : HandlerGet(k)
    \/ \E k \in Keys, v \in Values : HandlerSet(k, v)
    \/ \E k \in Keys : HandlerDelete(k)
    \/ TickCache

(***************************************************************************)
(* MemoryManager.                                                          *)
(***************************************************************************)
\* d[k] = v of a dict d
DictSet(d, k, v) == [x \in DOMAIN d \cup {k} |-> IF x = k THEN v ELSE d[x]]

\* del d[k] of a dict d
DictDel(d, k) == [x \in DOMAIN d \ {k} |-> d[x]]

\* (mutant: a tracked model is registered anew)
RegisteredAnew(mem, m, u, t) ==
    [usage |-> DictSet(mem.usage, m, u),
     last_used |-> Append(SelectSeq(mem.last_used, LAMBDA r : r.name # m),
                          [name |-> m, last_used |-> t]),
     access_count |-> DictSet(mem.access_count, m, 0)]

\* The three dicts of MemoryManager after register_model_memory(m, u) at time t.
Registered(mem, m, u, t) ==
    IF m \in DOMAIN mem.usage THEN mem
    ELSE [usage |-> DictSet(mem.usage, m, u),
          last_used |-> Append(mem.last_used, [name |-> m, last_used |-> t]),
          access_count |-> DictSet(mem.access_count, m, 0)]

\* The three dicts of MemoryManager after unregister_model_memory(m).
Unregistered(mem, m) ==
    IF m \in DOMAIN mem.usage
    THEN [usage |-> DictDel(mem.usage, m),
          last_used |-> SelectSeq(mem.last_used, LAMBDA e : e.name # m),
          access_count |-> DictDel(mem.access_count, m)]
    ELSE mem

\* The three dicts of MemoryManager after update_model_usage(m) at time t.
Updated(mem, m, t) ==
    IF \E i \in 1..Len(mem.last_used) : mem.last_used[i].name = m
    THEN [usage |-> mem.usage,
          last_used |-> [i \in 1..Len(mem.last_used) |->
                           IF mem.last_used[i].name = m
                           THEN [name |-> m, last_used |-> t]
                           ELSE mem.last_used[i]],
          access_count |-> [mem.access_count EXCEPT ![m] = @ + 1]]
    ELSE mem

\* The three dicts of MemoryManager, as one record.
Mem == [usage |-> model_memory_usage, last_used |-> model_last_used,
        access_count |-> model_access_count]

\* The three dicts of MemoryManager become those of the record mem.
SetMem(mem) ==
    /\ model_memory_usage' = mem.usage
    /\ model_last_used' = mem.last_used
    /\ model_access_count' = mem.access_count

\* The sum of f over the set S of its arguments.
RECURSIVE SumOver(_, _)
SumOver(f, S) ==
    IF S = {} THEN 0
    ELSE LET x == CHOOSE y \in S : TRUE IN f[x] + SumOver(f, S \ {x})

\* MemoryManager.get_total_memory_usage: sum(self.model_memory_usage.values())
TotalMemoryUsage(mu) == SumOver(mu, DOMAIN mu)

\* The candidates of check_memory_pressure, in the order of model_last_used:
\* score = idle_time / (access_count + 1), kept as the pair of its numerator and
\* denominator.
Candidates(lu, ac, t) ==
    [i \in 1..Len(lu) |->
        [name |-> lu[i].name, idle |-> t - lu[i].last_used, den |-> ac[lu[i].name] + 1]]

\* score of a > score of b, as fractions.
ScoreGreater(a, b) == a.idle * b.den > b.idle * a.den

\* candidates.sort(key=score, reverse=True): a stable sort, candidates of equal
\* score keep the order they had. InsertByScore puts x into the sorted s behind
\* every candidate whose score is not smaller.
RECURSIVE InsertByScore(_, _)
InsertByScore(x, s) ==
    IF s = <<>> THEN <<x>>
    ELSE IF ScoreGreater(x, Head(s)) THEN <<x>> \o s
    ELSE <<Head(s)>> \o InsertByScore(x, Tail(s))

RECURSIVE SortByScore(_)
SortByScore(s) ==
    IF s = <<>> THEN <<>>
    ELSE InsertByScore(s[Len(s)], SortByScore(SubSeq(s, 1, Len(s) - 1)))

\* The test of the selection loop for taking a candidate of the given usage.
Takes(remaining_memory, memory_usage, limit) == remaining_memory - memory_usage <= limit

\* The selection loop of check_memory_pressure over the sorted candidates from
\* position i on: models_to_clean so far and remaining_memory.
RECURSIVE SelectModels(_, _, _, _, _, _)
SelectModels(cands, i, mu, limit, models_to_clean, remaining_memory) ==
    IF i > Len(cands) THEN models_to_clean
    ELSE LET model_name == cands[i].name
             memory_usage == mu[model_name]
         IN  IF Takes(remaining_memory, memory_usage, limit)
             THEN IF remaining_memory - memory_usage <= limit
                  THEN Append(models_to_clean, model_name)
                  ELSE SelectModels(cands, i + 1, mu, limit,
                                    Append(models_to_clean, model_name),
                                    remaining_memory - memory_usage)
             ELSE SelectModels(cands, i + 1, mu, limit, models_to_clean, remaining_memory)

\* memory_pressure = total_usage > self.max_memory_usage
\* (mutant: pressure already at the budget)
MemoryPressureAtLimit(total_usage, limit) == total_usage >= limit

MemoryPressure(total_usage, limit) == total_usage > limit

\* MemoryManager.check_memory_pressure: the pair it returns.
CheckPressure(mu, lu, ac, limit, t) ==
    LET total_usage == TotalMemoryUsage(mu) IN
    IF ~MemoryPressure(total_usage, limit)
    THEN [pressure |-> FALSE, models |-> <<>>]
    ELSE [pressure |-> TRUE,
          models |-> SelectModels(SortByScore(Candidates(lu, ac, t)), 1, mu, limit,
                                  <<>>, total_usage)]

\* The record of a MemoryManager call.
MemOp(name, m, ok, res) ==
    [op |-> name, model |-> m, ok |-> ok, pressure |-> res.pressure, models |-> res.models]

\* The result fields of a call that is no check_memory_pressure.
NoResult == [pressure |-> FALSE, models |-> <<>>]

\* MemoryManager.register_model_memory(model_name, memory_usage)
RegisterModelMemory(m, u) ==
    /\ SetMem(Registered(Mem, m, u, now))
    /\ memOp' = MemOp("register", m, m \notin DOMAIN model_memory_usage, NoResult)
    /\ UNCHANGED <<svcVars, concVars, now, max_memory_usage, cacheVars, mgrVars>>

\* MemoryManager.update_model_usage(model_name)
UpdateModelUsage(m) ==
    /\ m \in DOMAIN model_access_count => model_access_count[m] < MaxAccess
    /\ SetMem(Updated(Mem, m, now))
    /\ memOp' = MemOp("update", m, TRUE, NoResult)
    /\ UNCHANGED <<svcVars, concVars, now, max_memory_usage, cacheVars, mgrVars>>

\* MemoryManager.unregister_model_memory(model_name)
UnregisterModelMemory(m) ==
    /\ SetMem(Unregistered(Mem, m))
    /\ memOp' = MemOp("unregister", m, m \in DOMAIN model_memory_usage, NoResult)
    /\ UNCHANGED <<svcVars, concVars, now, max_memory_usage, cacheVars, mgrVars>>

\* MemoryManager.check_memory_pressure()
CheckMemoryPressure ==
    /\ memOp' = MemOp("check", None, TRUE,
                      CheckPressure(model_memory_usage, model_last_used,
                                    model_access_count, max_memory_usage, now))
    /\ UNCHANGED <<svcVars, concVars, now, model_memory_usage, model_last_used, model_access_count,
                   max_memory_usage, cacheVars, mgrVars>>

\* set_memory_limit of the memory router: memory_manager.max_memory_usage = new_limit
SetMemoryLimit(limit) ==
    /\ max_memory_usage' = limit
    /\ memOp' = MemOp("limit", None, TRUE, NoResult)
    /\ UNCHANGED <<svcVars, concVars, now, model_memory_usage, model_last_used, model_access_count, cacheVars, mgrVars>>

\* time.time() advances between two MemoryManager calls.
TickMem ==
    /\ now < MaxTime
    /\ now' = now + 1
    /\ memOp' = MemOp("tick", None, TRUE, NoResult)
    /\ UNCHANGED <<model_memory_usage, model_last_used, model_access_count,
                   max_memory_usage, cacheVars, mgrVars, svcVars, concVars>>

\* MemoryManager.__init__: nothing is tracked; the budget is a share of the
\* memory available at construction, here the largest budget considered
\* (SetMemoryLimit moves it to any other).
InitMem ==
    /\ model_memory_usage = << >>
    /\ model_last_used = << >>
    /\ model_access_count = << >>
    /\ max_memory_usage = MaxBudget
    /\ memOp = MemOp("init", None, TRUE, NoResult)

NextMem ==
    \/ \E m \in ModelNames, u \in 1..MaxUsage : RegisterModelMemory(m, u)
    \/ \E m \in ModelNames : UpdateModelUsage(m)
    \/ \E m \in ModelNames : UnregisterModelMemory(m)
    \/ CheckMemoryPressure
    \/ \E limit \in 1..MaxBudget : SetMemoryLimit(limit)
    \/ TickMem

(***************************************************************************)
(* ModelLoader, ModelManager and the engine calls of AsyncInferenceService. *)
(* Every ModelManager method runs under ModelManager.lock from its first   *)
(* to its last line, so each is one step; an engine call runs in the       *)
(* thread pool without that lock, from ExecuteInference or GenerateStream  *)
(* to EngineReturn.                                                        *)
(***************************************************************************)
\* sanitize_model_name on the model names of the model: letters are lowered,
\* the names hold no other character it changes.
Sanitize(name) == CASE name = "M1" -> "m1" [] name = "M2" -> "m2" [] OTHER -> name

\* The state of ModelManager, ModelLoader and MemoryManager that an unload changes.
MgrState == [models |-> models, loaded_models |-> loaded_models,
             released |-> released, mem |-> Mem]

\* ModelLoader.unload_model(model_name) on the loader's dict: whether it finds
\* the model.
LoaderHas(lm, name) == Sanitize(name) \in DOMAIN lm

\* Whether ModelManager.unload_model goes on to release the model m: it asks
\* only whether the manager holds it.
Unloads(st, m) == m \in DOMAIN st.models

UnloadModelStateKeeps(st, m) ==
    IF Unloads(st, m)
    THEN [st EXCEPT !.released = IF LoaderHas(st.loaded_models, m)
                                 THEN @ \cup {st.loaded_models[Sanitize(m)]}
                                 ELSE @]
    ELSE st
\* ModelManager.unload_model(model_name) with a release that does not raise:
\* the state after it. The loader closes the handle and forgets it, the memory
\* record goes, the manager forgets the model.
UnloadModelState(st, m) ==
    IF Unloads(st, m)
    THEN [models |-> DictDel(st.models, m),
          loaded_models |-> DictDel(st.loaded_models, Sanitize(m)),
          released |-> IF LoaderHas(st.loaded_models, m)
                       THEN st.released \cup {st.loaded_models[Sanitize(m)]}
                       ELSE st.released,
          mem |-> Unregistered(st.mem, m)]
    ELSE st

UnloadRaisedStateHalf(st, m) == [st EXCEPT !.mem = Unregistered(st.mem, m)]
\* ModelManager.unload_model(model_name) with a release that raises: the state
\* after it. The close raises before the loader forgets the handle, and the
\* manager catches the exception before it has touched a record.
UnloadRaisedState(st, m) == st

\* What ModelManager.unload_model(model_name) returns when the release does not
\* raise.
UnloadModelResult(st, m) == Unloads(st, m) /\ LoaderHas(st.loaded_models, m)

\* The state st is the new state of the managers.
SetMgrState(st) ==
    /\ models' = st.models
    /\ loaded_models' = st.loaded_models
    /\ released' = st.released
    /\ SetMem(st.mem)

\* The record of a ModelManager call.
MgrOp(name, m, ok, unloaded) == [op |-> name, model |-> m, ok |-> ok, unloaded |-> unloaded]

LoadFailedStateRecorded(st, m) == [st EXCEPT !.models = DictSet(@, m, 0)]
\* ModelManager.load_model(model_name) without a model file or with a loader
\* that raises: the state after it. The loader raises before it records the
\* model, and the manager records it after the loader has returned.
LoadFailedState(st, m) == st

\* ModelManager.load_model(model_name): outcome is what the file system and the
\* Model Loader do ("nofile": no model file is found, "raise": the loader
\* raises, "ok": it returns a handle), u the resident bytes found for the
\* handle (0: unknown).
LoadModelCall(m, outcome, u) ==
    IF m \in DOMAIN models
    THEN /\ mgrOp' = MgrOp("load", m, TRUE, <<>>)
         /\ UNCHANGED <<models, loaded_models, next_handle, model_memory_usage,
                        model_last_used, model_access_count>>
    ELSE IF outcome # "ok"
    THEN /\ mgrOp' = MgrOp("load", m, FALSE, <<>>)
         /\ SetMgrState(LoadFailedState(MgrState, m))
         /\ UNCHANGED next_handle
    ELSE /\ next_handle < MaxLoads
         /\ next_handle' = next_handle + 1
         /\ loaded_models' = DictSet(loaded_models, Sanitize(m), next_handle + 1)
         /\ models' = DictSet(models, m, next_handle + 1)
         /\ SetMem(IF u > 0 THEN Registered(Mem, m, u, now) ELSE Mem)
         /\ mgrOp' = MgrOp("load", m, TRUE, <<>>)

\* A call of ModelManager.load_model(model_name) by the one thread of the
\* application.
LoadModel(m, outcome, u) ==
    /\ LoadModelCall(m, outcome, u)
    /\ UNCHANGED <<svcVars, concVars, now, released, executing, max_memory_usage, memOp, cacheVars>>

\* ModelManager.unload_model(model_name): raises tells whether releasing the
\* engine resources (the handle's close) raises.
UnloadModelCall(m, raises) ==
    IF Unloads(MgrState, m) /\ raises /\ LoaderHas(loaded_models, m)
    THEN /\ mgrOp' = MgrOp("unload", m, FALSE, <<>>)
         /\ SetMgrState(UnloadRaisedState(MgrState, m))
    ELSE /\ SetMgrState(UnloadModelState(MgrState, m))
         /\ mgrOp' = MgrOp("unload", m, UnloadModelResult(MgrState, m), <<>>)

\* A call of ModelManager.unload_model(model_name) by the one thread of the
\* application.
UnloadModel(m, raises) ==
    /\ UnloadModelCall(m, raises)
    /\ UNCHANGED <<svcVars, concVars, now, next_handle, executing, max_memory_usage, memOp, cacheVars>>

\* The loop of handle_memory_pressure over models_to_clean from position i on:
\* the state and the list unloaded_models after it.
RECURSIVE PressureLoop(_, _, _, _)
PressureLoop(models_to_clean, i, st, unloaded_models) ==
    IF i > Len(models_to_clean) THEN [st |-> st, unloaded |-> unloaded_models]
    ELSE LET model_name == models_to_clean[i] IN
         IF model_name \in DOMAIN st.models
         THEN PressureLoop(models_to_clean, i + 1, UnloadModelState(st, model_name),
                           IF UnloadModelResult(st, model_name)
                           THEN Append(unloaded_models, model_name)
                           ELSE unloaded_models)
         ELSE PressureLoop(models_to_clean, i + 1, st, unloaded_models)

\* ModelManager.handle_memory_pressure(), with releases that do not raise
HandleMemoryPressureCall ==
    LET res == CheckPressure(model_memory_usage, model_last_used, model_access_count,
                             max_memory_usage, now)
        out == PressureLoop(res.models, 1, MgrState, <<>>)
    IN  IF ~res.pressure
        THEN /\ mgrOp' = MgrOp("pressure", None, FALSE, <<>>)
             /\ UNCHANGED <<models, loaded_models, released, model_memory_usage,
                            model_last_used, model_access_count>>
        ELSE /\ SetMgrState(out.st)
             /\ mgrOp' = MgrOp("pressure", None, TRUE, out.unloaded)

\* A call of ModelManager.handle_memory_pressure() by the one thread of the
\* application.
HandleMemoryPressure ==
    /\ HandleMemoryPressureCall
    /\ UNCHANGED <<svcVars, concVars, now, next_handle, executing, max_memory_usage, memOp, cacheVars>>

\* The engine call of kind k on the handle of model m is handed to the thread
\* pool, after ModelManager.get_model(m) gave the handle and counted the use;
\* without a handle no engine call is made.
StartEngineCall(m, k) ==
    /\ m \in DOMAIN model_access_count => model_access_count[m] < MaxAccess
    /\ IF m \in DOMAIN models
       THEN /\ executing' = executing \cup {[model |-> m, handle |-> models[m], kind |-> k]}
            /\ SetMem(Updated(Mem, m, now))
            /\ mgrOp' = MgrOp(k, m, TRUE, <<>>)
       ELSE /\ mgrOp' = MgrOp(k, m, FALSE, <<>>)
            /\ UNCHANGED <<executing, model_memory_usage, model_last_used,
                           model_access_count>>
    /\ UNCHANGED <<svcVars, concVars, now, models, loaded_models, released, next_handle, max_memory_usage,
                   memOp, cacheVars>>

\* AsyncInferenceService._execute_inference(model_name, ...) up to its
\* run_in_executor: the dispatcher awaits it, so it runs one at a time.
ExecuteInference(m) ==
    /\ \A e \in executing : e.kind # "generate"
    /\ StartEngineCall(m, "generate")

\* AsyncInferenceService.generate_stream(model_name, ...) up to its
\* run_in_executor, for a handle with create_completion.
GenerateStream(m) ==
    /\ Cardinality({e \in executing : e.kind = "stream"}) < MaxStreams
    /\ StartEngineCall(m, "stream")

\* The engine call e returns (or raises) in its worker thread.
EngineReturn(e) ==
    /\ executing' = executing \ {e}
    /\ mgrOp' = MgrOp("return", e.model, TRUE, <<>>)
    /\ UNCHANGED <<svcVars, concVars, now, models, loaded_models, released, next_handle, memVars, cacheVars>>

\* time.time() advances between two steps of the managers.
TickMgr ==
    /\ now < MaxTime
    /\ now' = now + 1
    /\ mgrOp' = MgrOp("tick", None, TRUE, <<>>)
    /\ UNCHANGED <<models, loaded_models, released, next_handle, executing,
                   memVars, cacheVars, svcVars, concVars>>

\* ModelManager.__init__, ModelLoader.__init__: nothing is loaded.
InitMgr ==
    /\ models = << >>
    /\ loaded_models = << >>
    /\ released = {}
    /\ next_handle = 0
    /\ executing = {}
    /\ mgrOp = MgrOp("init", None, TRUE, <<>>)

NextMgr ==
    \/ \E m \in ModelNames, outcome \in {"nofile", "raise", "ok"}, u \in 0..MaxUsage :
          LoadModel(m, outcome, u)
    \/ \E m \in ModelNames, raises \in BOOLEAN : UnloadModel(m, raises)
    \/ HandleMemoryPressure
    \/ \E m \in ModelNames : ExecuteInference(m)
    \/ \E m \in ModelNames : GenerateStream(m)
    \/ \E e \in executing : EngineReturn(e)
    \/ \E limit \in 1..MaxBudget : SetMemoryLimit(limit)
    \/ TickMgr

(***************************************************************************)
(* The threads that call the ModelManager.  Every method of ModelManager   *)
(* is one `with self.lock:` block around its whole body (model_manager.py  *)
(* 44, 142, 327, 339, 363): a thread that enters a method takes the one    *)
(* RLock of the manager or waits for it, runs the body, and gives the lock *)
(* back.                                                                   *)
(***************************************************************************)
Threads == 1..MaxThreads

\* A thread's call of a ModelManager method: where the thread is, the method
\* and its model, and as history the handle the model had when the call was
\* made (0: none), whether the call had to wait for the lock, what it
\* returned (for handle_memory_pressure: whether it unloaded a model),
\* whether the release raised in it, and the handles it closed.
Caller(s, op, m, h, waited, ok, raised, closed) ==
    [state |-> s, op |-> op, model |-> m, handle |-> h, waited |-> waited,
     ok |-> ok, raised |-> raised, closed |-> closed]

\* A thread that has called nothing yet.
NoCall == Caller("idle", None, None, 0, FALSE, FALSE, FALSE, {})

\* The handles ModelLoader.unload_model closes in ModelManager.unload_model(m).
Closed(st, m) ==
    IF Unloads(st, m) /\ LoaderHas(st.loaded_models, m)
    THEN {st.loaded_models[Sanitize(m)]}
    ELSE {}

\* The handles closed by the loop of handle_memory_pressure over
\* models_to_clean from position i on.
RECURSIVE PressureClosed(_, _, _)
PressureClosed(models_to_clean, i, st) ==
    IF i > Len(models_to_clean) THEN {}
    ELSE LET model_name == models_to_clean[i] IN
         IF model_name \in DOMAIN st.models
         THEN Closed(st, model_name)
                 \cup PressureClosed(models_to_clean, i + 1, UnloadModelState(st, model_name))
         ELSE PressureClosed(models_to_clean, i + 1, st)

\* list(d.keys()) of a dict d whose keys are the set S.
RECURSIVE KeyList(_)
KeyList(S) ==
    IF S = {} THEN <<>>
    ELSE LET k == CHOOSE x \in S : TRUE IN <<k>> \o KeyList(S \ {k})

\* The loop of ModelManager.cleanup over names from position i on, the
\* release raising for the models of the set raising: the state after it and
\* the handles closed.
RECURSIVE CleanupLoop(_, _, _, _, _)
CleanupLoop(names, i, st, raising, closed) ==
    IF i > Len(names) THEN [st |-> st, closed |-> closed]
    ELSE LET model_name == names[i] IN
         IF model_name \in raising /\ Unloads(st, model_name)
                                   /\ LoaderHas(st.loaded_models, model_name)
         THEN CleanupLoop(names, i + 1, st, raising, closed)
         ELSE CleanupLoop(names, i + 1, UnloadModelState(st, model_name), raising,
                          closed \cup Closed(st, model_name))

\* ModelManager.cleanup(): every model of self.models is unloaded.
CleanupCall(raising) ==
    LET out == CleanupLoop(KeyList(DOMAIN models), 1, MgrState, raising, {}) IN
    /\ SetMgrState(out.st)
    /\ mgrOp' = MgrOp("cleanup", None, TRUE, <<>>)

\* ModelManager.get_model(model_name): the handle or None; the use of a
\* loaded model is counted.
GetModelCall(m) ==
    /\ SetMem(IF m \in DOMAIN models THEN Updated(Mem, m, now) ELSE Mem)
    /\ mgrOp' = MgrOp("get", m, m \in DOMAIN models, <<>>)
    /\ UNCHANGED <<models, loaded_models, released>>

\* The thread t calls the method op of ModelManager for the model m and
\* comes to its `with self.lock:`: it takes the lock or waits for it.
Enter(t, op, m) ==
    /\ callers[t].state \in {"idle", "returned"}
    /\ callers' = [callers EXCEPT ![t] =
          Caller(IF lock = 0 THEN "holding" ELSE "waiting", op, m,
                 IF m \in DOMAIN models THEN models[m] ELSE 0,
                 lock # 0, FALSE, FALSE, {})]
    /\ lock' = IF lock = 0 THEN t ELSE lock
    /\ UNCHANGED <<now, cacheVars, memVars, mgrVars, svcVars, sweep, usage, memory_lock, consumers>>

\* The thread t, waiting for the lock, gets it.
Acquire(t) ==
    /\ callers[t].state = "waiting"
    /\ lock = 0
    /\ lock' = t
    /\ callers' = [callers EXCEPT ![t].state = "holding"]
    /\ UNCHANGED <<now, cacheVars, memVars, mgrVars, svcVars, sweep, usage, memory_lock, consumers>>

\* The thread t leaves its `with self.lock:` and returns.
Leave(t, ok, raised, closed) ==
    /\ lock' = 0
    /\ callers' = [callers EXCEPT ![t].state = "returned", ![t].ok = ok,
                                  ![t].raised = raised, ![t].closed = closed]

\* The thread t holds the lock in the method op.
Holds(t, op) == callers[t].state = "holding" /\ callers[t].op = op /\ lock = t

\* The thread t runs the body of load_model.
LockedLoad(t, outcome, u) ==
    /\ Holds(t, "load")
    /\ LoadModelCall(callers[t].model, outcome, u)
    /\ Leave(t, callers[t].model \in DOMAIN models \/ outcome = "ok", FALSE, {})
    /\ UNCHANGED <<now, cacheVars, max_memory_usage, memOp, released, executing, svcVars,
                   sweep, usage, memory_lock, consumers>>

\* The thread t runs the body of unload_model.
LockedUnload(t, raises) ==
    LET m == callers[t].model
        raised == Unloads(MgrState, m) /\ raises /\ LoaderHas(loaded_models, m)
    IN  /\ Holds(t, "unload")
        /\ UnloadModelCall(m, raises)
        /\ Leave(t, ~raised /\ UnloadModelResult(MgrState, m), raised,
                 IF raised THEN {} ELSE Closed(MgrState, m))
        /\ UNCHANGED <<now, cacheVars, max_memory_usage, memOp, next_handle, executing,
                       svcVars, sweep, usage, memory_lock, consumers>>

\* The thread t runs the body of get_model.
LockedGet(t) ==
    LET m == callers[t].model IN
    /\ Holds(t, "get")
    /\ m \in DOMAIN model_access_count => model_access_count[m] < MaxAccess
    /\ GetModelCall(m)
    /\ Leave(t, m \in DOMAIN models, FALSE, {})
    /\ UNCHANGED <<now, cacheVars, max_memory_usage, memOp, next_handle, executing,
                   svcVars, sweep, usage, memory_lock, consumers>>

\* The thread t runs the body of handle_memory_pressure.
LockedPressure(t) ==
    LET res == CheckPressure(model_memory_usage, model_last_used, model_access_count,
                             max_memory_usage, now)
        out == PressureLoop(res.models, 1, MgrState, <<>>)
    IN  /\ Holds(t, "pressure")
        /\ HandleMemoryPressureCall
        /\ Leave(t, res.pressure /\ out.unloaded # <<>>, FALSE,
                 IF res.pressure THEN PressureClosed(res.models, 1, MgrState) ELSE {})
        /\ UNCHANGED <<now, cacheVars, max_memory_usage, memOp, next_handle, executing,
                       svcVars, sweep, usage, memory_lock, consumers>>

\* The thread t runs the body of cleanup.
LockedCleanup(t, raising) ==
    /\ Holds(t, "cleanup")
    /\ CleanupCall(raising)
    /\ Leave(t, FALSE, FALSE,
             CleanupLoop(KeyList(DOMAIN models), 1, MgrState, raising, {}).closed)
    /\ UNCHANGED <<now, cacheVars, max_memory_usage, memOp, next_handle, executing,
                   svcVars, sweep, usage, memory_lock, consumers>>

\* A call of ModelManager.get_model(model_name) by the one thread of the
\* application.
GetModel(m) ==
    /\ m \in DOMAIN model_access_count => model_access_count[m] < MaxAccess
    /\ GetModelCall(m)
    /\ UNCHANGED <<svcVars, concVars, now, next_handle, executing, max_memory_usage, memOp,
                   cacheVars>>

\* The calls of the ModelManager, one after the other, for model names that
\* differ only in what sanitize_model_name removes.
NextLife ==
    \/ \E m \in LifeNames, outcome \in {"nofile", "raise", "ok"}, u \in 0..MaxUsage :
          LoadModel(m, outcome, u)
    \/ \E m \in LifeNames, raises \in BOOLEAN : UnloadModel(m, raises)
    \/ \E m \in LifeNames : GetModel(m)
    \/ HandleMemoryPressure

\* No thread is in the ModelManager.
InitLock ==
    /\ lock = 0
    /\ callers = [t \in Threads |-> NoCall]

\* The threads of the application call the ModelManager at any time.
NextLock ==
    \/ \E t \in Threads, op \in {"load", "unload", "get"}, m \in ModelNames : Enter(t, op, m)
    \/ \E t \in Threads, op \in {"pressure", "cleanup"} : Enter(t, op, None)
    \/ \E t \in Threads : Acquire(t)
    \/ \E t \in Threads, u \in {0, MaxUsage} : LockedLoad(t, "ok", u)
    \/ \E t \in Threads : LockedLoad(t, "raise", 0)
    \/ \E t \in Threads, raises \in BOOLEAN : LockedUnload(t, raises)
    \/ \E t \in Threads : LockedGet(t)
    \/ \E t \in Threads : LockedPressure(t)
    \/ \E t \in Threads, raising \in SUBSET ModelNames : LockedCleanup(t, raising)

(***************************************************************************)
(* The cache key of a generate_text call (cached_generate,                 *)
(* generate_cache_key).  A call is made with positional arguments args     *)
(* (after self) and keyword arguments kwargs, a dict: the sequence, in the *)
(* order written, of <<name, value>>.                                      *)
(***************************************************************************)
\* kwargs.get(name, default)
KwGet(kwargs, name, default) ==
    IF \E i \in 1..Len(kwargs) : kwargs[i][1] = name
    THEN kwargs[CHOOSE i \in 1..Len(kwargs) : kwargs[i][1] = name][2]
    ELSE default

\* The place of a parameter name in the order of strings.
KeyRank(name) ==
    CASE name = "max_tokens" -> 1
      [] name = "model" -> 2
      [] name = "prompt" -> 3
      [] name = "temperature" -> 4

\* json.dumps(params, sort_keys=True): the items of the dict params by name.
RECURSIVE JsonDumps(_)
JsonDumps(params) ==
    IF params = <<>> THEN <<>>
    ELSE LET i == CHOOSE j \in 1..Len(params) :
                     \A l \in 1..Len(params) : KeyRank(params[j][1]) <= KeyRank(params[l][1])
         IN  <<params[i]>> \o JsonDumps(RemoveAt(params, i))

\* generate_cache_key(model, prompt, **kwargs): the digest is taken to have no
\* collisions, so the key stands for the string digested.
generate_cache_key(model, prompt, kwargs) ==
    <<"cache:", JsonDumps(<<<<"model", model>>, <<"prompt", prompt>>>> \o kwargs)>>

\* The model the wrapper of cached_generate hashes.
WrapperModel(args, kwargs) == KwGet(kwargs, "model", "default")

\* The prompt the wrapper of cached_generate hashes.
WrapperPrompt(args, kwargs) == KwGet(kwargs, "prompt", "")

\* The cache key the wrapper of cached_generate computes for a call.
WrapperKey(args, kwargs) ==
    generate_cache_key(WrapperModel(args, kwargs), WrapperPrompt(args, kwargs),
                       SelectSeq(kwargs, LAMBDA kv : kv[1] \in {"max_tokens", "temperature"}))

\* The positional arguments of a generate_text call c as the callers write
\* it: the routers pass the model positionally and the prompt by keyword,
\* generate_stream passes both positionally.
CallArgs(c) == IF c.by_keyword THEN <<c.model_name>> ELSE <<c.model_name, c.prompt>>

\* The keyword arguments of the call c, in the order the caller wrote them.
CallKwargs(c) ==
    LET sampling == IF c.reversed
                    THEN <<<<"temperature", c.temperature>>, <<"max_tokens", c.max_tokens>>>>
                    ELSE <<<<"max_tokens", c.max_tokens>>, <<"temperature", c.temperature>>>>
    IN  IF ~c.by_keyword THEN sampling
        ELSE IF c.reversed THEN sampling \o <<<<"prompt", c.prompt>>>>
        ELSE <<<<"prompt", c.prompt>>>> \o sampling

\* The cache key of the call c.
CallKey(c) == WrapperKey(CallArgs(c), CallKwargs(c))

\* The generate_text calls considered: their model, prompt, sampling
\* parameters and the way they are written.
KeyCalls ==
    [model_name : ModelNames, prompt : Prompts, by_keyword : BOOLEAN,
     max_tokens : 1..MaxParam, temperature : 1..MaxParam, reversed : BOOLEAN]

\* No pair of calls is under comparison.
NoFingerprints == [state |-> "none"]

\* Two generate_text calls are about to be made.
InitKey == fingerprints \in [state : {"called"}, a : KeyCalls, b : KeyCalls]

\* The wrapper computes the cache key of both calls.
ComputeKeys ==
    /\ fingerprints.state = "called"
    /\ fingerprints' = [state |-> "keyed", a |-> fingerprints.a, b |-> fingerprints.b,
                        key_a |-> CallKey(fingerprints.a),
                        key_b |-> CallKey(fingerprints.b)]
    /\ UNCHANGED <<now, cacheVars, memVars, mgrVars, calls, request_queue, putters, woken,
                   task, started, pool_down, stream, enqueued, served, concVars>>

NextKey == ComputeKeys

(***************************************************************************)
(* AsyncInferenceService: the admission queue, the dispatcher task, the    *)
(* callers of generate_text and one generate_stream generator.  All of it  *)
(* runs on the event loop: a step runs from one suspension (await) to the  *)
(* next.  Engine calls run in the thread pool.                             *)
(***************************************************************************)
\* Whether the handle the Model Loader returns for model m has
\* create_completion: the file of m1 is a .gguf file, that of m2 a .bin file.
HasCreateCompletion(m) == m = "m1"

\* The generation result of the engine for the call c.
ResultOf(c) == <<c.model_name, c.prompt>>

\* The dispatcher task in the state s, executing the call id.
Task(s, id, outcome) == [state |-> s, call |-> id, outcome |-> outcome]

\* The state the steps of the service change.
SvcState ==
    [calls |-> calls, queue |-> request_queue, putters |-> putters, woken |-> woken,
     task |-> task, enqueued |-> enqueued, served |-> served,
     executing |-> executing, mem |-> Mem]

\* The state st is the new state of the service.
SetSvcState(st) ==
    /\ calls' = st.calls
    /\ request_queue' = st.queue
    /\ putters' = st.putters
    /\ woken' = st.woken
    /\ task' = st.task
    /\ enqueued' = st.enqueued
    /\ served' = st.served
    /\ executing' = st.executing
    /\ SetMem(st.mem)

\* request_queue.full()
Full(q) == Len(q) >= QueueSize

\* request_queue.get_nowait(): the item taken and the queue left.
\* (mutant: the newest item is taken)
GetNowaitNewest(q) == [item |-> q[Len(q)], queue |-> SubSeq(q, 1, Len(q) - 1)]

GetNowait(q) == [item |-> Head(q), queue |-> Tail(q)]

\* After an item left the queue, the oldest suspended put is woken.
WakeupNext(st) ==
    IF st.putters = <<>> THEN st
    ELSE [st EXCEPT !.putters = Tail(@), !.woken = @ \cup {Head(st.putters)}]

\* request_queue.put of the call id once the queue was found not full.
PutNowait(st, id) ==
    [st EXCEPT !.queue = Append(@, id),
               !.enqueued = Append(@, id),
               !.calls[id].state = "waiting"]

\* await request_queue.put(...) of the call id: it enters the queue, or, the
\* queue being full, the caller is suspended.
Put(st, id) ==
    IF Full(st.queue)
    THEN [st EXCEPT !.putters = Append(@, id), !.calls[id].state = "putting"]
    ELSE PutNowait(st, id)

\* Whether the wrapper of cached_generate returns the cached result: hit
\* tells whether response_cache.get gave one.
\* (mutant: the wrapper goes on to the wrapped function on a hit too)
WrapperAlwaysCalls(hit) == FALSE

WrapperReturnsCached(hit) == hit

\* Whether the wrapper of cached_generate stores what the wrapped function
\* gave: future is how the completion handle was resolved.
\* (mutant: the wrapper stores on an exception too)
WrapperSetsAlways(future) == TRUE

WrapperSets(future) == future = "result"

\* A generate_text call as it starts: c0 holds its arguments, key its cache key.
NewCall(c0, key, from_stream) ==
    [model_name |-> c0.model_name, prompt |-> c0.prompt, by_keyword |-> c0.by_keyword,
     key |-> key, from_stream |-> from_stream, state |-> "new", future |-> "none",
     result |-> None, lookups |-> 0, engine_calls |-> 0, cancelled_queued |-> FALSE]

\* The wrapper of cached_generate around generate_text, after its
\* response_cache.get: on a hit the call returns the cached result, on a miss
\* generate_text creates the future and puts the request into the queue.
WrapperCall(st, c0, key, from_stream, hit, cached) ==
    LET id == Len(st.calls) + 1
        st1 == [st EXCEPT !.calls = Append(@, NewCall(c0, key, from_stream))]
    IN  IF WrapperReturnsCached(hit)
        THEN [st1 EXCEPT !.calls[id].state = "hit", !.calls[id].result = cached]
        ELSE Put([st1 EXCEPT !.calls[id].future = "pending"], id)

\* (mutant: the future is set without the test of future.done())
ResolveDone(st, id, how, result) ==
    [st EXCEPT !.calls[id].future = how, !.calls[id].result = result]

\* future.set_result / future.set_exception of the call id, if not future.done()
Resolve(st, id, how, result) ==
    IF st.calls[id].future = "pending"
    THEN [st EXCEPT !.calls[id].future = how, !.calls[id].result = result]
    ELSE st

\* What _execute_inference raises before it calls the engine for model m:
\* the ValueError of a model that is not loaded when get_model gives None,
\* else the error of run_in_executor on a thread pool that is shut down.
RaisedBeforeEngine(m, down) ==
    IF m \notin DOMAIN models THEN "NotLoaded"
    ELSE IF down THEN "PoolDown" ELSE None

\* (mutant: the error of the request is swallowed, its future left as it is)
FailRequestSwallowed(st, id, error) == st

\* _process_requests, `except Exception as e`: future.set_exception(e) unless
\* the future is done.
FailRequest(st, id, error) == Resolve(st, id, "exception", error)

\* AsyncInferenceService._process_requests from the top of its loop to its
\* next suspension: it takes the oldest request and runs _execute_inference
\* for it, which raises at once without a handle (or without a thread pool)
\* and otherwise hands the engine call to the thread pool and is suspended;
\* on an empty queue it is suspended in request_queue.get.
RECURSIVE ProcessRequests(_)
ProcessRequests(st) ==
    IF st.queue = <<>> THEN [st EXCEPT !.task = Task("idle", 0, "none")]
    ELSE LET got == GetNowait(st.queue)
             id  == got.item
             m   == st.calls[id].model_name
             st1 == [WakeupNext([st EXCEPT !.queue = got.queue]) EXCEPT
                        !.served = Append(@, id),
                        !.calls[id].lookups = @ + 1,
                        !.mem = IF m \in DOMAIN models THEN Updated(@, m, now) ELSE @]
             error == RaisedBeforeEngine(m, pool_down)
         IN  IF error # None
             THEN ProcessRequests(FailRequest(st1, id, error))
             ELSE [st1 EXCEPT !.task = Task("running", id, "none"),
                              !.calls[id].engine_calls = @ + 1,
                              !.executing = @ \cup {[model |-> m, handle |-> models[m],
                                                     kind |-> "generate"]}]

\* The arguments of a generate_text call of a router for model m and prompt p.
RouterCall(m, p) ==
    [model_name |-> m, prompt |-> p, by_keyword |-> TRUE,
     max_tokens |-> 1, temperature |-> 1, reversed |-> FALSE]

\* The arguments of the generate_text call generate_stream makes.
StreamCall(m, p) ==
    [model_name |-> m, prompt |-> p, by_keyword |-> FALSE,
     max_tokens |-> 1, temperature |-> 1, reversed |-> FALSE]

\* The value response_cache.get(key) returns.
CachedValue(c, k, t) == IF GetHits(c, k, t) THEN c[IndexOf(c, k)].value ELSE None

\* A router calls generate_text(m, prompt=p, ...): the wrapper of
\* cached_generate and, on a miss, generate_text up to its first suspension.
GenerateText(m, p) ==
    LET key == CallKey(RouterCall(m, p))
        hit == GetHits(cache, key, now)
    IN  /\ Len(calls) < MaxCalls
        /\ GetCall(key)
        /\ SetSvcState(WrapperCall(SvcState, RouterCall(m, p), key, FALSE, hit,
                                   CachedValue(cache, key, now)))
        /\ UNCHANGED <<now, max_memory_usage, memOp, models, loaded_models, next_handle,
                       released, mgrOp, started, pool_down, stream, fingerprints, concVars>>

\* The put of the call id, woken, runs again: the queue may be full again.
PutResume(id) ==
    /\ id \in woken
    /\ SetSvcState(Put([SvcState EXCEPT !.woken = @ \ {id}], id))
    /\ UNCHANGED <<now, cacheVars, max_memory_usage, memOp, models, loaded_models,
                   next_handle, released, mgrOp, started, pool_down, stream, fingerprints, concVars>>

\* The caller of the call id, suspended in await future, runs again: the
\* wrapper stores the result in the cache and returns it, or the exception
\* goes up.
CallerResume(id) ==
    /\ id \in 1..Len(calls)
    /\ ~calls[id].from_stream
    /\ calls[id].state = "waiting"
    /\ calls[id].future \in {"result", "exception"}
    /\ IF WrapperSets(calls[id].future)
       THEN SetCall(calls[id].key, calls[id].result)
       ELSE UNCHANGED cacheVars
    /\ calls' = [calls EXCEPT ![id].state =
                    IF calls[id].future = "result" THEN "returned" ELSE "raised"]
    /\ UNCHANGED <<now, memVars, mgrVars, request_queue, putters, woken, task, started,
                   pool_down, stream, enqueued, served, fingerprints, concVars>>

\* The caller of the call id is cancelled while suspended in put or in await
\* future: the future is cancelled with it; a request already in the queue
\* stays there.
CancelCall(id) ==
    /\ id \in 1..Len(calls)
    /\ ~calls[id].from_stream
    /\ calls[id].state \in {"putting", "waiting"}
    /\ LET st  == SvcState
           st1 == [st EXCEPT !.calls[id].state = "cancelled",
                             !.calls[id].future = IF @ = "pending" THEN "cancelled" ELSE @,
                             !.calls[id].cancelled_queued = id \in Range(st.queue),
                             !.putters = SelectSeq(@, LAMBDA x : x # id),
                             !.woken = @ \ {id}]
       IN  SetSvcState(IF id \in st.woken /\ ~Full(st.queue) THEN WakeupNext(st1) ELSE st1)
    /\ UNCHANGED <<now, cacheVars, max_memory_usage, memOp, models, loaded_models,
                   next_handle, released, mgrOp, started, pool_down, stream, fingerprints, concVars>>

\* (mutant: start_processing creates a task whenever it is called)
CreatesTaskAlways(s, t) == TRUE

\* The test of start_processing for creating the task: not self._started and
\* (self._processing_task is None or self._processing_task.done()).
CreatesTask(s, t) == ~s /\ t.state \in {"none", "done"}

\* AsyncInferenceService.start_processing(): asyncio.create_task makes one
\* more _process_requests task.
StartProcessing ==
    /\ IF CreatesTask(started, task)
       THEN /\ task' = Task("idle", 0, "none")
            /\ started' = TRUE
            /\ consumers' = consumers + 1
       ELSE UNCHANGED <<task, started, consumers>>
    /\ UNCHANGED <<now, cacheVars, memVars, mgrVars, calls, request_queue, putters, woken,
                   pool_down, stream, enqueued, served, fingerprints, lock, callers,
                   sweep, usage, memory_lock>>

\* The dispatcher, suspended in request_queue.get, runs again.
DispatcherGet ==
    /\ task.state = "idle"
    /\ request_queue # <<>>
    /\ SetSvcState(ProcessRequests(SvcState))
    /\ UNCHANGED <<now, cacheVars, max_memory_usage, memOp, models, loaded_models,
                   next_handle, released, mgrOp, started, pool_down, stream, fingerprints, concVars>>

\* The dispatcher, suspended in the engine call of _execute_inference, runs
\* again: it resolves the future with the result or the exception and goes
\* back to the top of its loop.
DispatcherResume ==
    /\ task.state = "ready"
    /\ LET id == task.call IN
       SetSvcState(ProcessRequests(
           IF task.outcome = "ok"
           THEN Resolve(SvcState, id, "result", ResultOf(calls[id]))
           ELSE Resolve(SvcState, id, "exception", None)))
    /\ UNCHANGED <<now, cacheVars, max_memory_usage, memOp, models, loaded_models,
                   next_handle, released, mgrOp, started, pool_down, stream, fingerprints, concVars>>

\* The first n elements of the sequence s.
Take(s, n) == SubSeq(s, 1, IF n < Len(s) THEN n ELSE Len(s))

\* AsyncInferenceService.shutdown(): the dispatcher task is cancelled (the
\* future of the request it executes stays as it is), the queue is emptied,
\* each item taken waking a suspended put, and the thread pool is shut down.
Shutdown ==
    /\ task' = IF task.state \in {"idle", "running", "ready"}
               THEN Task("done", task.call, "none") ELSE task
    /\ request_queue' = <<>>
    /\ woken' = woken \cup Range(Take(putters, Len(request_queue)))
    /\ putters' = SubSeq(putters, Len(Take(putters, Len(request_queue))) + 1, Len(putters))
    /\ pool_down' = TRUE
    /\ consumers' = IF task.state \in {"idle", "running", "ready"}
                    THEN consumers - 1 ELSE consumers
    /\ UNCHANGED <<now, cacheVars, memVars, mgrVars, calls, started, stream, enqueued,
                   served, fingerprints, lock, callers, sweep, usage, memory_lock>>

\* The elements generate_stream yields.
Token(i) == [kind |-> "token", index |-> i, finished |-> FALSE]

EndOfStream == [kind |-> "end", index |-> 0, finished |-> TRUE]

ErrorElement == [kind |-> "error", index |-> 0, finished |-> TRUE]

\* The generate_stream generator: its state, its arguments, the generate_text
\* call it made (0: none), the tokens still to come, the elements yielded,
\* how often it had the Response Cache read and written, and the number of
\* generators created so far.
Stream(s, m, p, id, remaining, out, reads, writes, runs) ==
    [state |-> s, model_name |-> m, prompt |-> p, call |-> id, remaining |-> remaining,
     out |-> out, cache_reads |-> reads, cache_writes |-> writes, runs |-> runs]

\* No generate_stream generator was created.
NoStream == Stream("none", None, None, 0, 0, <<>>, 0, 0, 0)

\* The generator ends with the element last.
Finish(s, last) == [s EXCEPT !.state = "done", !.remaining = 0, !.out = Append(@, last)]

\* AsyncInferenceService.generate_stream(m, p, ...) up to its first
\* suspension: without a handle it yields an error element; with a handle
\* that has create_completion it hands the engine call to the thread pool;
\* with another handle it calls generate_text (through cached_generate).
StreamStart(m, p) ==
    LET key == CallKey(StreamCall(m, p))
        hit == GetHits(cache, key, now)
        st1 == [SvcState EXCEPT !.mem = IF m \in DOMAIN models THEN Updated(@, m, now) ELSE @]
        s0  == Stream("start", m, p, 0, 0, <<>>, 0, 0, stream.runs + 1)
    IN  /\ stream.state \in {"none", "done"}
        /\ stream.runs < MaxRuns
        /\ IF m \notin DOMAIN models
           THEN /\ stream' = Finish(s0, ErrorElement)
                /\ SetSvcState(st1)
                /\ UNCHANGED cacheVars
           ELSE IF HasCreateCompletion(m)
           THEN IF pool_down
                THEN /\ stream' = Finish(s0, ErrorElement)
                     /\ SetSvcState(st1)
                     /\ UNCHANGED cacheVars
                ELSE /\ stream' = [s0 EXCEPT !.state = "engine"]
                     /\ SetSvcState([st1 EXCEPT !.executing = @ \cup
                            {[model |-> m, handle |-> models[m], kind |-> "stream"]}])
                     /\ UNCHANGED cacheVars
           ELSE /\ Len(calls) < MaxCalls
                /\ GetCall(key)
                /\ SetSvcState(WrapperCall(st1, StreamCall(m, p), key, TRUE, hit,
                                           CachedValue(cache, key, now)))
                /\ stream' = IF WrapperReturnsCached(hit)
                             THEN [s0 EXCEPT !.state = "tokens", !.remaining = MaxTokens,
                                             !.call = Len(calls) + 1, !.cache_reads = 1]
                             ELSE [s0 EXCEPT !.state = "call", !.call = Len(calls) + 1,
                                             !.cache_reads = 1]
        /\ UNCHANGED <<now, max_memory_usage, memOp, models, loaded_models, next_handle,
                       released, mgrOp, started, pool_down, fingerprints, concVars>>

\* generate_stream, suspended in its generate_text call, runs again: the
\* wrapper stores the result in the cache and the text is yielded, or the
\* exception is caught and an error element yielded.
StreamResume ==
    LET id == stream.call IN
    /\ stream.state = "call"
    /\ calls[id].state = "waiting"
    /\ calls[id].future \in {"result", "exception"}
    /\ IF WrapperSets(calls[id].future)
       THEN SetCall(calls[id].key, calls[id].result)
       ELSE UNCHANGED cacheVars
    /\ calls' = [calls EXCEPT ![id].state =
                    IF calls[id].future = "result" THEN "returned" ELSE "raised"]
    /\ stream' = IF calls[id].future = "result"
                 THEN [stream EXCEPT !.state = "tokens", !.remaining = MaxTokens,
                                     !.cache_writes = @ + 1]
                 ELSE Finish(stream, ErrorElement)
    /\ UNCHANGED <<now, memVars, mgrVars, request_queue, putters, woken, task, started,
                   pool_down, enqueued, served, fingerprints, concVars>>

\* generate_stream yields its next element: the next token, the completion
\* sentinel after the last token, or an error element when the engine raises
\* while it is iterated.
StreamYield(raises) ==
    /\ stream.state = "tokens"
    /\ stream' = IF raises /\ HasCreateCompletion(stream.model_name)
                 THEN Finish(stream, ErrorElement)
                 ELSE IF stream.remaining > 0
                 THEN [stream EXCEPT !.remaining = @ - 1,
                                     !.out = Append(@, Token(Len(stream.out) + 1))]
                 ELSE Finish(stream, EndOfStream)
    /\ UNCHANGED <<now, cacheVars, memVars, mgrVars, calls, request_queue, putters, woken,
                   task, started, pool_down, enqueued, served, fingerprints, concVars>>

\* The engine call e ends in its worker thread: it returns (for a stream, a
\* generator of n tokens) or raises; the dispatcher or the generator that
\* awaits it becomes ready to run.
EngineCallReturns(e, outcome, n) ==
    /\ executing' = executing \ {e}
    /\ IF e.kind = "generate" /\ task.state = "running"
       THEN /\ task' = Task("ready", task.call, outcome)
            /\ UNCHANGED stream
       ELSE IF e.kind = "stream" /\ stream.state = "engine"
       THEN /\ stream' = IF outcome = "ok"
                         THEN [stream EXCEPT !.state = "tokens", !.remaining = n]
                         ELSE Finish(stream, ErrorElement)
            /\ UNCHANGED task
       ELSE UNCHANGED <<task, stream>>
    /\ UNCHANGED <<now, cacheVars, memVars, models, loaded_models, next_handle, released,
                   mgrOp, calls, request_queue, putters, woken, started, pool_down,
                   enqueued, served, fingerprints, concVars>>

\* time.time() advances between two steps of the service.
TickSvc ==
    /\ now < MaxTime
    /\ now' = now + 1
    /\ UNCHANGED <<cacheVars, memVars, mgrVars, svcVars, concVars>>

\* AsyncInferenceService.__init__: the queue is empty, no dispatcher task
\* exists.
InitService ==
    /\ calls = <<>>
    /\ request_queue = <<>>
    /\ putters = <<>>
    /\ woken = {}
    /\ task = Task("none", 0, "none")
    /\ started = FALSE
    /\ pool_down = FALSE
    /\ stream = NoStream
    /\ enqueued = <<>>
    /\ served = <<>>

InitSvc ==
    /\ InitService
    /\ fingerprints = NoFingerprints

\* The service with the callers of generate_text, within one tick of the
\* clock (no cache entry expires).
NextSvc ==
    \/ \E m \in ModelNames, p \in SvcPrompts : GenerateText(m, p)
    \/ \E id \in 1..MaxCalls : PutResume(id)
    \/ \E id \in 1..MaxCalls : CallerResume(id)
    \/ \E id \in 1..MaxCalls : CancelCall(id)
    \/ StartProcessing
    \/ DispatcherGet
    \/ DispatcherResume
    \/ Shutdown
    \/ \E e \in executing, outcome \in {"ok", "raise"} : EngineCallReturns(e, outcome, 0)
    \/ \E m \in ModelNames : LoadModel(m, "ok", 1)

\* The service with the consumers of generate_stream, one generator at a
\* time: its one request never finds the queue full, so no put is suspended.
NextStream ==
    \/ \E m \in ModelNames, p \in Prompts : StreamStart(m, p)
    \/ StreamResume
    \/ \E raises \in BOOLEAN : StreamYield(raises)
    \/ StartProcessing
    \/ DispatcherGet
    \/ DispatcherResume
    \/ Shutdown
    \/ \E e \in executing, outcome \in {"ok", "raise"}, n \in 0..MaxTokens :
          EngineCallReturns(e, outcome, n)
    \/ \E m \in ModelNames : LoadModel(m, "ok", 1)
    \/ TickSvc

(***************************************************************************)
(* The two locks.  ModelManager.lock and MemoryManager.lock are RLocks     *)
(* (model_manager.py 23, memory_manager.py 24).  A thread of the           *)
(* application calls a method of the ModelManager, the thread of the       *)
(* MemoryMonitor calls the MemoryManager; here a call is the sequence of   *)
(* its `with self.lock:` entries and exits, one step each, and a thread    *)
(* waits at an entry while another thread holds the lock.                  *)
(***************************************************************************)
\* The thread of the MemoryMonitor.
MonitorThread == MaxThreads + 1

LockThreads == Threads \cup {MonitorThread}

\* Entering and leaving the `with self.lock:` block of a ModelManager method
\* and of a MemoryManager method.
EnterManager == <<"acquire", "manager">>
ExitManager == <<"release", "manager">>
EnterMemory == <<"acquire", "memory">>
ExitMemory == <<"release", "memory">>

\* A MemoryManager method called with the ModelManager lock held:
\* register_model_memory, unregister_model_memory, update_model_usage.
MemoryCall == <<EnterMemory, ExitMemory>>

\* check_memory_pressure: inside its block it calls get_total_memory_usage,
\* which enters the lock again.
CheckCall == <<EnterMemory, EnterMemory, ExitMemory, ExitMemory>>

\* unload_model of a loaded model: unregister_model_memory inside its block.
UnloadCall == <<EnterManager>> \o MemoryCall \o <<ExitManager>>

\* The lock steps a ModelManager method can take, by what it finds: load_model
\* registers the memory of a model it loaded, unload_model unregisters a
\* model it released, get_model counts the use of a loaded model,
\* handle_memory_pressure checks the pressure and unloads a recommended
\* model, cleanup unloads the loaded models.
ManagerScripts(op) ==
    CASE op \in {"load", "unload", "get"} ->
            {<<EnterManager, ExitManager>>, UnloadCall}
      [] op = "pressure" ->
            {<<EnterManager>> \o CheckCall \o <<ExitManager>>,
             <<EnterManager>> \o CheckCall \o UnloadCall \o <<ExitManager>>}
      [] op = "cleanup" ->
            {<<EnterManager, ExitManager>>,
             <<EnterManager>> \o UnloadCall \o <<ExitManager>>}

\* (mutant: check_memory_pressure unloads what it recommends through the
\* ModelManager, inside its block)
MonitorScriptsUnloading(op) ==
    {<<EnterMemory, EnterMemory, ExitMemory>> \o UnloadCall \o <<ExitMemory>>}

\* The lock steps of the MemoryMonitor thread: check_memory_pressure in
\* _monitor_loop, and cleanup_models, which calls unregister_model_memory
\* inside its block.
MonitorScripts(op) ==
    IF op = "check" THEN {CheckCall}
    ELSE {<<EnterMemory>> \o MemoryCall \o <<ExitMemory>>}

\* A thread in a call: the method, its lock steps and the next of them.
LockCaller(op, script, pc) == [op |-> op, script |-> script, pc |-> pc]

NoLockCaller == LockCaller(None, <<>>, 1)

\* How often the caller c has entered the lock l without leaving it.
Depth(c, l) ==
    Cardinality({i \in 1..(c.pc - 1) : c.script[i] = <<"acquire", l>>})
  - Cardinality({i \in 1..(c.pc - 1) : c.script[i] = <<"release", l>>})

\* The next lock step of the caller c, <<>> when it has none.
NextStep(c) == IF c.pc <= Len(c.script) THEN c.script[c.pc] ELSE <<>>

\* The thread that holds the lock l.
Owner(l) == IF l = "manager" THEN lock ELSE memory_lock

\* A thread calls a method.
LockCall(t, op, script) ==
    /\ callers[t].op = None
    /\ callers' = [callers EXCEPT ![t] = LockCaller(op, script, 1)]
    /\ UNCHANGED <<now, cacheVars, memVars, mgrVars, svcVars, lock, sweep, usage,
                   memory_lock, consumers>>

\* RLock.acquire: the thread enters the block when the lock is free or its
\* own.
AcquireLock(t) ==
    LET c == callers[t]
        step == NextStep(c)
    IN  /\ step # <<>>
        /\ step[1] = "acquire"
        /\ Owner(step[2]) \in {0, t}
        /\ lock' = IF step[2] = "manager" THEN t ELSE lock
        /\ memory_lock' = IF step[2] = "memory" THEN t ELSE memory_lock
        /\ callers' = [callers EXCEPT ![t].pc = @ + 1]
        /\ UNCHANGED <<now, cacheVars, memVars, mgrVars, svcVars, sweep, usage, consumers>>

\* RLock.release: the thread leaves the block; the lock is free when it has
\* left every block of it.
ReleaseLock(t) ==
    LET c == callers[t]
        step == NextStep(c)
        free == Depth(c, step[2]) = 1
    IN  /\ step # <<>>
        /\ step[1] = "release"
        /\ lock' = IF step[2] = "manager" /\ free THEN 0 ELSE lock
        /\ memory_lock' = IF step[2] = "memory" /\ free THEN 0 ELSE memory_lock
        /\ callers' = [callers EXCEPT ![t].pc = @ + 1]
        /\ UNCHANGED <<now, cacheVars, memVars, mgrVars, svcVars, sweep, usage, consumers>>

\* The method returns.
LockReturn(t) ==
    /\ callers[t].op # None
    /\ NextStep(callers[t]) = <<>>
    /\ callers' = [callers EXCEPT ![t] = NoLockCaller]
    /\ UNCHANGED <<now, cacheVars, memVars, mgrVars, svcVars, lock, sweep, usage,
                   memory_lock, consumers>>

(***************************************************************************)
(* Token accounting.  A text is a sequence of code points; the texts of    *)
(* the model are made of the code points around the two ends of the range  *)
(* of the regular expression [U+4E00-U+9FFF].                              *)
(***************************************************************************)
\* The first and the last code point of the character class.
ChineseFirst == 19968
ChineseLast == 40959

\* The code points of the texts: the two ends of the class and their
\* neighbours outside it.
Chars == {ChineseFirst - 1, ChineseFirst, ChineseLast, ChineseLast + 1}

\* The texts of at most MaxText code points.
Texts == UNION {[1..n -> Chars] : n \in 0..MaxText}

\* re.findall(r'[U+4E00-U+9FFF]', text), the escapes written as code points
FindAllChinese(text) ==
    LET InClass(ch) == ch >= ChineseFirst /\ ch <= ChineseLast
    IN  SelectSeq(text, InClass)

\* int(x) of a float x >= 0 that is num / 4: the floats of the estimate are
\* multiples of 0.25 and exact, int() cuts the fraction off.
IntOfQuarters(num) == num \div 4

\* As _estimate_tokens, without the max(1, ...) of its return.
EstimateTokensUnfloored(text) ==
    LET chinese_chars == Len(FindAllChinese(text))
        other_chars == Len(text) - chinese_chars
    IN  IntOfQuarters(2 * chinese_chars + other_chars)

\* AsyncInferenceService._estimate_tokens(text); token_count =
\* chinese_chars / 2 + other_chars / 4 is kept in quarters.
EstimateTokens(text) ==
    LET chinese_chars == Len(FindAllChinese(text))
        other_chars == Len(text) - chinese_chars
        token_count == 2 * chinese_chars + other_chars
    IN  IF IntOfQuarters(token_count) > 1 THEN IntOfQuarters(token_count) ELSE 1

\* The "usage" of the response built by _execute_inference for a prompt and
\* the text the engine generated; each estimate is computed anew where it is
\* used.
Usage(prompt, generated_text) ==
    [state |-> "reported", prompt |-> prompt, text |-> generated_text,
     prompt_tokens |-> EstimateTokens(prompt),
     completion_tokens |-> EstimateTokens(generated_text),
     total_tokens |-> EstimateTokens(prompt) + EstimateTokens(generated_text)]

\* No response was built.
NoUsage ==
    [state |-> "none", prompt |-> <<>>, text |-> <<>>, prompt_tokens |-> 0,
     completion_tokens |-> 0, total_tokens |-> 0]

\* The engine has generated a text for a prompt; no response is built yet.
Generated(prompt, generated_text) ==
    [NoUsage EXCEPT !.state = "generated", !.prompt = prompt, !.text = generated_text]

\* _execute_inference builds the response for the prompt and the generated
\* text.
ReportUsage ==
    /\ usage.state = "generated"
    /\ usage' = Usage(usage.prompt, usage.text)
    /\ UNCHANGED <<now, cacheVars, memVars, mgrVars, svcVars, lock, callers, sweep,
                   memory_lock, consumers>>

\* Any prompt with any generated text.
InitTokens ==
    /\ now = 0
    /\ InitCache
    /\ InitMem
    /\ InitMgr
    /\ InitSvc
    /\ InitLock
    /\ sweep = NoSweep
    /\ memory_lock = 0
    /\ consumers = 0
    /\ \E prompt \in Texts, generated_text \in Texts : usage = Generated(prompt, generated_text)

NextTokens == ReportUsage

(***************************************************************************)
(* The specifications.                                                     *)
(***************************************************************************)
\* No thread is in the ModelManager, the CacheCleaner does not sweep, no
\* tokens were estimated.
InitConc ==
    /\ InitLock
    /\ sweep = NoSweep
    /\ usage = NoUsage
    /\ memory_lock = 0
    /\ consumers = 0

Init ==
    /\ now = 0
    /\ InitCache
    /\ InitMem
    /\ InitMgr
    /\ InitSvc
    /\ InitConc

\* The ResponseCache under any sequence of calls.
SpecCache == Init /\ [][NextCache]_vars

\* The MemoryManager under any sequence of calls.
SpecMem == Init /\ [][NextMem]_vars

\* The ModelManager with the engine calls of the inference service.
SpecMgr == Init /\ [][NextMgr]_vars

\* The inference service with its callers, the cache and the loaded models.
SpecSvc == Init /\ [][NextSvc]_vars

\* The inference service with the consumers of generate_stream.
SpecStream == Init /\ [][NextStream]_vars

\* The coroutines that are ready to run are run by the event loop, the engine
\* calls handed to the thread pool end, and the application starts the
\* dispatcher (main.py, startup); nothing obliges a consumer to open a
\* stream, the clock to tick, or the application to shut down.
FairStream ==
    /\ WF_vars(StreamResume)
    /\ WF_vars(\E raises \in BOOLEAN : StreamYield(raises))
    /\ WF_vars(StartProcessing)
    /\ WF_vars(DispatcherGet)
    /\ WF_vars(DispatcherResume)
    /\ WF_vars(\E e \in executing, outcome \in {"ok", "raise"}, n \in 0..MaxTokens :
                  EngineCallReturns(e, outcome, n))

\* The inference service with the consumers of generate_stream, every
\* coroutine that can run eventually running.
SpecStreamLive == SpecStream /\ FairStream

\* The coroutines that are ready to run are run by the event loop, the engine
\* calls handed to the thread pool end, and the application starts the
\* dispatcher; nothing obliges a caller to submit or to cancel, or the
\* application to shut down.
FairSvc ==
    /\ WF_vars(\E id \in 1..MaxCalls : PutResume(id))
    /\ WF_vars(\E id \in 1..MaxCalls : CallerResume(id))
    /\ WF_vars(StartProcessing)
    /\ WF_vars(DispatcherGet)
    /\ WF_vars(DispatcherResume)
    /\ WF_vars(\E e \in executing, outcome \in {"ok", "raise"} :
                  EngineCallReturns(e, outcome, 0))

\* The inference service with its callers, every coroutine that can run
\* eventually running and every engine call ending.
SpecSvcLive == SpecSvc /\ FairSvc

\* Two generate_text calls are about to be made on a service just constructed.
InitKeys ==
    /\ now = 0
    /\ InitCache
    /\ InitMem
    /\ InitMgr
    /\ InitService
    /\ InitKey
    /\ InitConc

\* No thread is in a call, both locks are free.
InitOrder ==
    /\ now = 0
    /\ InitCache
    /\ InitMem
    /\ InitMgr
    /\ InitSvc
    /\ lock = 0
    /\ memory_lock = 0
    /\ callers = [t \in LockThreads |-> NoLockCaller]
    /\ sweep = NoSweep
    /\ usage = NoUsage
    /\ consumers = 0

\* The threads of the application call the ModelManager, the MemoryMonitor
\* thread calls the MemoryManager.
NextOrder ==
    \/ \E t \in Threads, op \in {"load", "unload", "get", "pressure", "cleanup"} :
          \E script \in ManagerScripts(op) : LockCall(t, op, script)
    \/ \E op \in {"check", "cleanup_models"} :
          \E script \in MonitorScripts(op) : LockCall(MonitorThread, op, script)
    \/ \E t \in LockThreads : AcquireLock(t)
    \/ \E t \in LockThreads : ReleaseLock(t)
    \/ \E t \in LockThreads : LockReturn(t)

\* A thread goes on when it can; a thread that waits for a lock which is
\* free again and again gets it.
FairOrder ==
    \A t \in LockThreads :
        /\ SF_vars(AcquireLock(t))
        /\ WF_vars(ReleaseLock(t))
        /\ WF_vars(LockReturn(t))

\* The two locks and the threads that take them.
SpecOrder == InitOrder /\ [][NextOrder]_vars

SpecOrderLive == SpecOrder /\ FairOrder

\* The token estimates of the responses.
SpecTokens == InitTokens /\ [][NextTokens]_vars

\* The ResponseCache with the CacheCleaner thread and the request handlers.
SpecSweep == Init /\ [][NextSweep]_vars

\* The ModelManager called for names with the same sanitized name.
SpecLife == Init /\ [][NextLife]_vars

\* The ModelManager with the threads that call it.
SpecLock == Init /\ [][NextLock]_vars

\* The cache keys of two generate_text calls.
SpecKey == InitKeys /\ [][NextKey]_vars

(***************************************************************************)
(* Claims about ResponseCache, checked under SpecCache.                    *)
(***************************************************************************)
\* C1: after any sequence of set/get/delete/clear/cleanup_expired calls the
\* number of stored entries never exceeds max_size; a set of a new key into a
\* cache holding max_size entries removes exactly the least-recently-used
\* entry (and counts one eviction) before inserting.
C1_Step ==
    /\ Len(cache') <= MaxSize
    /\ \A k \in Keys :
          (cacheOp'.op = "set" /\ cacheOp'.key = k
              /\ ~Stored(cache, k) /\ Len(cache) = MaxSize)
          => /\ StoredKeys(cache') = (StoredKeys(cache) \ {recency[1]}) \cup {k}
             /\ Len(cache') = MaxSize
             /\ evictions' = evictions + 1

C1_SizeBoundedAndLruEvicted == [][C1_Step]_vars

\* A set of a new key has just evicted another key from a full cache.
C1_Witness ==
    /\ cacheOp.op = "set"
    /\ cacheOp.age = NoAge
    /\ cacheOp.evicted \in Keys \ {cacheOp.key}
    /\ Len(cache) = MaxSize
    /\ ~Stored(cache, cacheOp.evicted)

\* C2: get never returns the value of an entry whose age is greater than ttl,
\* even when the entry is still stored: such a get reports a miss, counts one
\* miss (and no hit), and removes the entry.
C2_Step ==
    \A k \in Keys :
        (cacheOp'.op = "get" /\ cacheOp'.key = k
            /\ Stored(cache, k) /\ AgeOf(cache, k, now) > TTL)
        => /\ cacheOp'.ret = None
           /\ misses' = misses + 1
           /\ hits' = hits
           /\ ~Stored(cache', k)

C2_ExpiredNeverReturned == [][C2_Step]_vars

\* A get has just met a stored entry older than ttl.
C2_Witness ==
    /\ cacheOp.op = "get"
    /\ cacheOp.age > TTL
    /\ cacheOp.ret = None
    /\ misses > 0

\* C3: recency is refreshed by reads and writes: when set evicts for capacity,
\* the evicted key is the stored key whose most recent successful get or set
\* is the oldest, and no other key leaves the cache.
C3_Step ==
    (cacheOp'.op = "set" /\ cacheOp'.evicted # None)
    => /\ cacheOp'.evicted = recency[1]
       /\ StoredKeys(cache') = (StoredKeys(cache) \ {recency[1]}) \cup {cacheOp'.key}

C3_EvictsLeastRecentlyUsed == [][C3_Step]_vars

\* The example of the specification: set A, set B, get A, set C evicts B and
\* leaves A and C.
C3_Witness ==
    /\ MaxSize = 2
    /\ cacheOp.op = "set"
    /\ cacheOp.key = "C"
    /\ cacheOp.evicted = "B"
    /\ CacheKeys(cache) = <<"A", "C">>
    /\ cache[1].timestamp <= cache[2].timestamp
    /\ hits = 1

\* C4: after max_size + 1 distinct keys are set in sequence into a new (or
\* cleared) cache with no other call in between, the first-inserted key is
\* absent, the other max_size keys are present, and one eviction was counted.
C4_FirstInsertedEvicted ==
    (setRun # Broken /\ Len(setRun) = MaxSize + 1)
    => /\ ~Stored(cache, setRun[1])
       /\ \A i \in 2..Len(setRun) : Stored(cache, setRun[i])
       /\ evictions = 1

\* max_size + 1 distinct keys have been set in sequence.
C4_Witness ==
    /\ setRun # Broken
    /\ Len(setRun) = MaxSize + 1
    /\ Cardinality(Range(setRun)) = MaxSize + 1

\* C5: a get issued right after set(key, value), before ttl elapses, returns
\* exactly that value, also when the key was stored with another value.
C5_Step ==
    \A k \in Keys :
        (cacheOp'.op = "get" /\ cacheOp'.key = k
            /\ lastSet.key = k /\ now - lastSet.at <= TTL)
        => cacheOp'.ret = lastSet.value

C5_GetAfterSet == [][C5_Step]_vars

\* A get has just followed, one tick later, a set that replaced a stored value.
C5_Witness ==
    /\ cacheOp.op = "get"
    /\ cacheOp.after.key = cacheOp.key
    /\ cacheOp.after.value = "v2"
    /\ cacheOp.ret = "v2"
    /\ cacheOp.age = 1
    /\ now - cacheOp.after.at = 1
    /\ hits = 1

(***************************************************************************)
(* Claims about MemoryManager.check_memory_pressure, checked under SpecMem. *)
(* check_memory_pressure changes nothing it reads, so the state in which   *)
(* memOp records a check is the state the check was made in.               *)
(***************************************************************************)
\* The resident bytes of the models of the list L.
RECURSIVE ListUsage(_)
ListUsage(L) == IF L = <<>> THEN 0 ELSE model_memory_usage[Head(L)] + ListUsage(Tail(L))

\* The candidates cs are in an order of descending score.
ScoreDescending(cs) == \A i \in 1..(Len(cs) - 1) : ~ScoreGreater(cs[i + 1], cs[i])

\* The orders of the tracked models by descending score (one for each way of
\* ordering equal scores).
ScoreOrders ==
    LET cands == Candidates(model_last_used, model_access_count, now)
        n == Len(cands)
    IN  {[i \in 1..n |-> cands[p[i]].name] :
            p \in {q \in [1..n -> 1..n] :
                     /\ \A i, j \in 1..n : i # j => q[i] # q[j]
                     /\ ScoreDescending([i \in 1..n |-> cands[q[i]]])}}

\* The shortest prefix of the order ord whose removal brings the usage to the
\* budget or below.
GreedyPrefix(ord) ==
    LET total == TotalMemoryUsage(model_memory_usage)
        fits(n) == total - ListUsage(SubSeq(ord, 1, n)) <= max_memory_usage
        n == CHOOSE k \in 0..Len(ord) : fits(k) /\ \A j \in 0..(k - 1) : ~fits(j)
    IN  SubSeq(ord, 1, n)

\* C6: whenever the total registered memory exceeds the budget, the list
\* returned by check_memory_pressure is sufficient: the total minus the resident
\* bytes of the recommended models is at most the budget.
C6_RecommendationSufficient ==
    (memOp.op = "check" /\ TotalMemoryUsage(model_memory_usage) > max_memory_usage)
    => TotalMemoryUsage(model_memory_usage) - ListUsage(memOp.models) <= max_memory_usage

\* C7: whenever the registered resident bytes exceed the budget and at least
\* one model is registered, check_memory_pressure returns (true, L) with L
\* non-empty.
C7_RecommendationNonEmpty ==
    (memOp.op = "check" /\ TotalMemoryUsage(model_memory_usage) > max_memory_usage
        /\ DOMAIN model_memory_usage # {})
    => (memOp.pressure /\ memOp.models # <<>>)

\* C8: under pressure the returned list is the shortest prefix of the
\* score-descending order of all tracked models that brings the projected
\* usage to the budget or below; no model is skipped for a lower-scored one.
C8_GreedyPrefixByScore ==
    (memOp.op = "check" /\ memOp.pressure)
    => \E ord \in ScoreOrders : memOp.models = GreedyPrefix(ord)

\* C9: when the registered resident bytes are at most the budget,
\* check_memory_pressure returns (false, []) whatever the idle times and access
\* counts are.
C9_NoPressureAtOrBelowBudget ==
    (memOp.op = "check" /\ TotalMemoryUsage(model_memory_usage) <= max_memory_usage)
    => (~memOp.pressure /\ memOp.models = <<>>)

\* A check was made with two models registered exactly at the budget, with
\* different idle times and access counts.
C9_Witness ==
    /\ memOp.op = "check"
    /\ Len(model_last_used) = 2
    /\ TotalMemoryUsage(model_memory_usage) = max_memory_usage
    /\ model_last_used[1].last_used # model_last_used[2].last_used
    /\ model_access_count[model_last_used[1].name] # model_access_count[model_last_used[2].name]
    /\ now > model_last_used[2].last_used
    /\ ~memOp.pressure

(***************************************************************************)
(* Claims about ModelManager and the engine calls, checked under SpecMgr.  *)
(***************************************************************************)
\* C10: a model is never unloaded (its engine resources released by
\* handle_memory_pressure or unload_model) while an engine call started by
\* _execute_inference or generate_stream is still executing against that
\* model's handle in the thread pool.
C10_NeverUnloadedInFlight ==
    \A e \in executing : e.handle \notin released

(***************************************************************************)
(* Claims about the admission queue and the dispatcher, checked under      *)
(* SpecSvc.                                                                *)
(***************************************************************************)
\* C11: when the admission queue already holds its capacity of pending
\* requests, the next submission (generate_text on a cache miss) fails with a
\* QueueFull error instead of being accepted or blocking: no caller is ever
\* left suspended in the put on a full queue.
C11_FullQueueRejects ==
    \A i \in 1..Len(calls) : calls[i].state # "putting"

\* The place of the call id in the order of entering the queue.
EnqueuePos(id) == CHOOSE i \in 1..Len(enqueued) : enqueued[i] = id

\* C12: requests are started by the dispatcher in exactly the order they were
\* enqueued: the requests taken up were taken in the order they entered the
\* queue, and every request still waiting in the queue entered it after every
\* request taken up (no request starts before one enqueued earlier).
C12_StartedInEnqueueOrder ==
    /\ Range(served) \subseteq Range(enqueued)
    /\ \A i, j \in 1..Len(served) :
          i < j => EnqueuePos(served[i]) < EnqueuePos(served[j])
    /\ \A i \in 1..Len(served), j \in 1..Len(request_queue) :
          EnqueuePos(served[i]) < EnqueuePos(request_queue[j])

\* Every call allowed was enqueued and taken up, each exactly once, the last
\* one for a loaded model, and its engine call is running.
C12_Witness ==
    /\ Len(enqueued) = MaxCalls
    /\ served = enqueued
    /\ \A i \in 1..MaxCalls : calls[i].lookups = 1
    /\ task.state = "running"
    /\ task.call = served[MaxCalls]

(***************************************************************************)
(* Claims about the cache key, checked under SpecKey.                      *)
(***************************************************************************)
\* The calls a and b have the same model id, prompt, max_tokens and temperature.
SameFields(a, b) ==
    /\ a.model_name = b.model_name
    /\ a.prompt = b.prompt
    /\ a.max_tokens = b.max_tokens
    /\ a.temperature = b.temperature

\* The number of fields among model id, prompt, max_tokens and temperature in
\* which the calls a and b differ.
FieldsChanged(a, b) ==
    (IF a.model_name # b.model_name THEN 1 ELSE 0)
    + (IF a.prompt # b.prompt THEN 1 ELSE 0)
    + (IF a.max_tokens # b.max_tokens THEN 1 ELSE 0)
    + (IF a.temperature # b.temperature THEN 1 ELSE 0)

\* C13: the fingerprint is deterministic: two generate_text calls with the
\* same model id, the same prompt and the same max_tokens and temperature get
\* the same cache key, whatever the order of their keyword arguments.
C13_SameCallSameKey ==
    (fingerprints.state = "keyed" /\ SameFields(fingerprints.a, fingerprints.b))
    => fingerprints.key_a = fingerprints.key_b

\* C14: the fingerprint is sensitive to every hashed field: for two calls
\* written the same way (the model id positional, the prompt by keyword or
\* positional), changing any one of model id, prompt, max_tokens or
\* temperature changes the cache key.
C14_ChangedFieldChangesKey ==
    (/\ fingerprints.state = "keyed"
     /\ fingerprints.a.by_keyword = fingerprints.b.by_keyword
     /\ fingerprints.a.reversed = fingerprints.b.reversed
     /\ FieldsChanged(fingerprints.a, fingerprints.b) = 1)
    => fingerprints.key_a # fingerprints.key_b

(***************************************************************************)
(* Claims about generate_text and the Response Cache, checked under        *)
(* SpecSvc.                                                                *)
(***************************************************************************)
\* C15: on a cache hit generate_text returns the cached result at once: no
\* request is enqueued, the model manager (get_model) and the engine are not
\* invoked, and the last-used and access-count records of the memory manager
\* are unchanged.
C15_Step ==
    (/\ Len(calls') = Len(calls) + 1
     /\ GetHits(cache, calls'[Len(calls')].key, now))
    => LET c == calls'[Len(calls')] IN
       /\ c.state = "hit"
       /\ c.result = CachedValue(cache, c.key, now)
       /\ c.lookups = 0
       /\ c.engine_calls = 0
       /\ request_queue' = request_queue
       /\ putters' = putters
       /\ enqueued' = enqueued
       /\ served' = served
       /\ task' = task
       /\ executing' = executing
       /\ model_last_used' = model_last_used
       /\ model_access_count' = model_access_count

C15_HitTouchesNothing == [][C15_Step]_vars

\* A generate_text call has returned a cached result while another request
\* was waiting in the queue.
C15_Witness ==
    /\ calls # <<>>
    /\ calls[Len(calls)].state = "hit"
    /\ calls[Len(calls)].result # None
    /\ hits > 0
    /\ request_queue # <<>>

(***************************************************************************)
(* Claims about generate_stream, checked under SpecStream.                 *)
(***************************************************************************)
\* C16: a streaming request (generate_stream) never reads from and never
\* writes to the Response Cache, for every kind of model handle.
C16_StreamNeverUsesCache ==
    /\ stream.cache_reads = 0
    /\ stream.cache_writes = 0


\* The elements yielded so far: only the last one may be marked finished,
\* it is once the generator has ended, and the tokens are numbered in the
\* order the engine produced them.
C17_Shape ==
    \A i \in 1..Len(stream.out) :
        /\ stream.out[i].finished <=> (i = Len(stream.out) /\ stream.state = "done")
        /\ stream.out[i].kind = "token" => stream.out[i].index = i

\* C17: every sequence produced by generate_stream is finite and ends with
\* exactly one element marked finished=True (the completion sentinel or an
\* error element); no element follows it, no earlier element is marked
\* finished, and the tokens come in the order the engine produced them.
C17_StreamEndsFinished ==
    /\ []C17_Shape
    /\ (stream.state \notin {"none", "done"}) ~> (stream.state = "done")


(***************************************************************************)
(* Claims about the dispatcher, checked under SpecSvc.                     *)
(***************************************************************************)
\* The dispatcher runs again after the engine call of the request it executes
\* raised (shutdown, the other step that changes the task, closes the pool).
C18_EngineRaised ==
    /\ task.state = "ready"
    /\ task.outcome = "raise"
    /\ task' # task
    /\ ~pool_down'

C18_Step ==
    /\ C18_EngineRaised =>
          LET id == task.call IN
          \* the future gets the error, unless its caller cancelled it before
          /\ calls'[id].future =
                IF calls[id].future = "pending" THEN "exception" ELSE calls[id].future
          /\ calls'[id].result = None
          /\ cacheVars' = cacheVars
          \* no second engine call for it: it is not put back into the queue
          /\ calls'[id].engine_calls = 1
          /\ id \notin Range(request_queue')
          /\ \A e \in executing' : task'.state = "running" /\ task'.call # id
          \* the dispatcher goes on with the requests behind it
          /\ task'.state \in {"idle", "running"}
          /\ request_queue # <<>> =>
                /\ Len(served') > Len(served)
                /\ served'[Len(served) + 1] = Head(request_queue)
          /\ task'.state = "idle" => request_queue' = <<>>
    \* the caller of a request resolved with an error writes nothing
    /\ \A i \in 1..Len(calls) :
          (calls[i].future = "exception" /\ calls'[i].state # calls[i].state)
              => /\ cacheVars' = cacheVars
                 /\ calls'[i].state \in {"raised", "cancelled"}
    /\ \A i \in 1..Len(calls') : calls'[i].engine_calls <= 1

\* C18: when the engine call for a request raises, the request's future is
\* resolved with the error, nothing is written to the cache for it, the
\* engine is called at most once for it, and the dispatcher goes on to the
\* requests queued behind it.
C18_EngineErrorHandled == [][C18_Step]_vars

\* A request ended with the error of its one engine call and wrote nothing
\* to the cache, and the request queued behind it got its result.
C18_Witness ==
    \E i, j \in 1..Len(calls) :
        /\ calls[i].state = "raised"
        /\ calls[i].future = "exception"
        /\ calls[i].engine_calls = 1
        /\ i \in Range(enqueued) /\ j \in Range(enqueued)
        /\ EnqueuePos(i) < EnqueuePos(j)
        /\ calls[j].future = "result"
        /\ calls[j].state = "waiting"
        /\ cache = <<>>


\* C19: every request accepted into the queue eventually has its future
\* resolved (result, error or cancellation), engine calls ending; also the
\* requests queued or executing when shutdown is called, and the requests
\* submitted after a shutdown followed by start_processing.
C19_AcceptedEventuallyResolved ==
    \A id \in 1..MaxCalls :
        (id \in Range(enqueued)) ~> (id \in 1..Len(calls) /\ calls[id].future # "pending")


\* C20: a request whose caller cancels it while it is waiting in the queue is
\* never executed: when the dispatcher takes it from the queue, no model
\* lookup and no engine call is made for it.
C20_CancelledNeverExecuted ==
    \A i \in 1..Len(calls) :
        calls[i].cancelled_queued =>
            /\ calls[i].lookups = 0
            /\ calls[i].engine_calls = 0


(***************************************************************************)
(* Claims about the life cycle of a model.                                 *)
(***************************************************************************)
\* The thread t has returned from an unload_model call that it made while
\* its model was loaded and in which the release did not raise.
UnloadReturned(t) ==
    /\ callers[t].state = "returned"
    /\ callers[t].op = "unload"
    /\ callers[t].handle # 0
    /\ ~callers[t].raised

\* Of two calls no handle is closed by both; of two concurrent unload_model
\* calls on the same loaded model one returned True and closed the handle,
\* the other returned False; an unload_model call concurrent with a call
\* (unload_model, handle_memory_pressure, cleanup) that closed the handle
\* returned False and closed nothing.
C21_Once ==
    \A t1, t2 \in Threads :
        t1 # t2 =>
            /\ callers[t1].closed \cap callers[t2].closed = {}
            /\ (/\ UnloadReturned(t1) /\ UnloadReturned(t2)
                /\ callers[t1].model = callers[t2].model
                /\ callers[t1].handle = callers[t2].handle)
                  => /\ callers[t1].ok # callers[t2].ok
                     /\ callers[t1].ok => callers[t1].closed = {callers[t1].handle}
                     /\ ~callers[t1].ok => callers[t1].closed = {}
            /\ (UnloadReturned(t1) /\ callers[t1].handle \in callers[t2].closed)
                  => /\ ~callers[t1].ok
                     /\ callers[t1].closed = {}

\* A call closes only handles that no call closed before.
C21_Step ==
    \A t \in Threads :
        callers'[t].closed # callers[t].closed => callers'[t].closed \cap released = {}

\* C21: for any interleaving of concurrent unload_model calls (also
\* handle_memory_pressure and cleanup) on the same loaded model, the engine
\* resources of the model are released exactly once and exactly one call
\* reports success; the others return false.
C21_UnloadedExactlyOnce == []C21_Once /\ [][C21_Step]_vars

\* Two threads called unload_model for the same loaded model, the second
\* while the first held the lock: the first closed the handle and returned
\* True, the second returned False.
C21_Witness ==
    \E t1, t2 \in Threads :
        /\ t1 # t2
        /\ UnloadReturned(t1) /\ UnloadReturned(t2)
        /\ callers[t1].model = callers[t2].model
        /\ callers[t1].handle = callers[t2].handle
        /\ callers[t2].waited
        /\ callers[t1].ok /\ callers[t1].closed = {callers[t1].handle}
        /\ ~callers[t2].ok /\ callers[t2].closed = {}
        /\ callers[t1].handle \in released


\* C22: transitions of different model ids are independent: while a load or
\* unload of a model A is in progress, a load, unload or get_model of another
\* model B does not wait for it; only calls for the same model wait for each
\* other.
C22_OnlySameModelWaits ==
    \A t \in Threads :
        (/\ callers[t].state = "waiting"
         /\ callers[t].op \in {"load", "unload", "get"}
         /\ lock # 0
         /\ callers[lock].op \in {"load", "unload"})
            => callers[lock].model = callers[t].model


\* A step of the ModelManager (every call records itself in mgrOp) is a call
\* unload_model(mgrOp'.model); the release raised in it when the model was
\* and still is held by the manager (model_manager.py 144-160).
C23_Step ==
    mgrOp'.op = "unload" =>
        LET m      == mgrOp'.model
            was    == m \in DOMAIN models
            raised == was /\ m \in DOMAIN models'
        IN  /\ mgrOp'.ok <=> (was /\ ~raised)
            /\ (was /\ ~raised) =>
                  /\ m \notin DOMAIN models'
                  /\ m \notin DOMAIN model_memory_usage'
                  /\ \A i \in 1..Len(model_last_used') : model_last_used'[i].name # m
                  /\ m \notin DOMAIN model_access_count'
            /\ ~was =>
                  /\ ~mgrOp'.ok
                  /\ UNCHANGED <<models, loaded_models, released, model_memory_usage,
                                 model_last_used, model_access_count>>

\* C23: unload_model(m) returns true if and only if m was loaded when the
\* call started and the unload did not raise; after a call that found m
\* loaded and did not raise, m is not loaded and has no memory record; a call
\* on a model that is not loaded returns false and changes nothing.
C23_UnloadReturnsWhetherUnloaded == [][C23_Step]_vars


\* The thread t returns from an unload_model call in which the release raised.
C24_Raised(t) ==
    /\ callers[t].state = "holding"
    /\ callers'[t].state = "returned"
    /\ callers'[t].op = "unload"
    /\ callers'[t].raised

C24_Step ==
    \A t \in Threads :
        C24_Raised(t) =>
            LET m == callers[t].model IN
            /\ ~callers'[t].ok
            /\ callers'[t].closed = {}
            /\ m \in DOMAIN models /\ m \in DOMAIN models'
            /\ models'[m] = models[m]
            /\ models'[m] \notin released'
            /\ LoaderHas(loaded_models', m)
            /\ loaded_models'[Sanitize(m)] = models'[m]
            /\ model_memory_usage' = model_memory_usage
            /\ model_last_used' = model_last_used
            /\ model_access_count' = model_access_count
            /\ models' = models /\ loaded_models' = loaded_models /\ released' = released

\* C24: when releasing the engine resources raises during unload_model, the
\* model stays loaded: get_model still returns its handle, its memory record
\* is registered with the same resident bytes, and the loader still lists
\* it; it is never left half-removed.
C24_FailedUnloadKeepsLoaded == [][C24_Step]_vars

\* An unload_model call of a model with a memory record raised and returned
\* False; the model is loaded as before.
C24_Witness ==
    \E t \in Threads :
        /\ callers[t].state = "returned"
        /\ callers[t].op = "unload"
        /\ callers[t].raised
        /\ ~callers[t].ok
        /\ callers[t].model \in DOMAIN models
        /\ callers[t].model \in DOMAIN model_memory_usage
        /\ models[callers[t].model] = callers[t].handle
        /\ LoaderHas(loaded_models, callers[t].model)


\* The thread t returns from a load_model call that reports failure.
C25_Failed(t) ==
    /\ callers[t].state = "holding"
    /\ callers'[t].state = "returned"
    /\ callers'[t].op = "load"
    /\ ~callers'[t].ok

C25_Step ==
    \A t \in Threads :
        C25_Failed(t) =>
            LET m == callers[t].model IN
            /\ m \notin DOMAIN models'
            /\ ~LoaderHas(loaded_models', m) \/ loaded_models' = loaded_models
            /\ m \notin DOMAIN model_memory_usage'
            /\ \A i \in 1..Len(model_last_used') : model_last_used'[i].name # m
            \* the loader was called once: no handle was made
            /\ next_handle' = next_handle
            \* nothing is left of the call: what was possible before it still is
            /\ UNCHANGED <<models, loaded_models, released, executing, memVars>>

\* C25: when the Model Loader fails to load a model, load_model reports
\* failure and the model is left unloaded: absent from models and
\* model_info, without a memory record, no retry; a later load of the same
\* model is still possible.
C25_FailedLoadLeavesUnloaded == [][C25_Step]_vars

\* A load of a model failed, and the load of the same model made after it
\* succeeded.
C25_Witness ==
    \E t1, t2 \in Threads :
        /\ t1 # t2
        /\ callers[t1].state = "returned" /\ callers[t1].op = "load" /\ ~callers[t1].ok
        /\ callers[t2].state = "returned" /\ callers[t2].op = "load" /\ callers[t2].ok
        /\ callers[t2].handle = 0
        /\ callers[t1].model = callers[t2].model
        /\ callers[t1].model \in DOMAIN models


\* C26: in every state outside a transition, the models with a memory record
\* in the MemoryManager are the models loaded in the ModelManager: every
\* successful load creates a record, every successful unload deletes it.
C26_RecordsAreLoadedModels ==
    /\ DOMAIN model_memory_usage = DOMAIN models
    /\ {model_last_used[i].name : i \in 1..Len(model_last_used)} = DOMAIN models
    /\ DOMAIN model_access_count = DOMAIN models


(***************************************************************************)
(* Claims about the CacheCleaner and the counters of the ResponseCache.    *)
(***************************************************************************)
\* C27: cleanup_expired run by the CacheCleaner thread is safe under every
\* interleaving with get, set and delete of the request handlers: it does
\* not raise because of the interleaving, and it never removes an entry that
\* is unexpired at the moment it is deleted.
C27_SweepIsSafe ==
    /\ sweep.error = "none"
    /\ ~sweep.removed_fresh


\* C28: the counters hits, misses and evictions never decrease across any
\* operation of the cache (get, set, delete, clear, cleanup_expired).
C28_CountersNeverDecrease ==
    [][/\ hits' >= hits
       /\ misses' >= misses
       /\ evictions' >= evictions]_vars


(***************************************************************************)
(* Claims about the token estimates.                                       *)
(***************************************************************************)
\* The number of code points of the text in U+4E00..U+9FFF, and of the others.
CJKCount(text) == Cardinality({i \in DOMAIN text : text[i] \in 19968..40959})
OtherCount(text) == Len(text) - CJKCount(text)

\* max(1, floor((2*c + o) / 4)) for the c CJK and o other characters of text.
ClaimedEstimate(text) ==
    LET q == (2 * CJKCount(text) + OtherCount(text)) \div 4
    IN  IF q >= 1 THEN q ELSE 1

\* C29: the token estimate of a text with c CJK characters (U+4E00..U+9FFF)
\* and o other characters is max(1, floor((2*c + o) / 4)), an empty text
\* gives 1, and the reported total_tokens is prompt_tokens +
\* completion_tokens.
C29_TokenEstimate ==
    usage.state = "reported" =>
        /\ usage.prompt_tokens = ClaimedEstimate(usage.prompt)
        /\ usage.completion_tokens = ClaimedEstimate(usage.text)
        /\ usage.prompt = <<>> => usage.prompt_tokens = 1
        /\ usage.text = <<>> => usage.completion_tokens = 1
        /\ usage.total_tokens = usage.prompt_tokens + usage.completion_tokens

\* A prompt of four CJK characters, estimated at 2, with a generated text of
\* one CJK and one other character, whose 0.75 is cut to 0 and raised to 1.
C29_Witness ==
    /\ usage.state = "reported"
    /\ CJKCount(usage.prompt) = 4
    /\ usage.prompt_tokens = 2
    /\ CJKCount(usage.text) = 1
    /\ OtherCount(usage.text) = 1
    /\ usage.completion_tokens = 1
    /\ usage.total_tokens = 3


(***************************************************************************)
(* Claims about a request for a model that is not loaded, checked under    *)
(* SpecSvc.                                                                *)
(***************************************************************************)
\* The dispatcher takes the request id from the queue in this step, and its
\* model has no handle.
C30_TakenUnloaded(id) ==
    /\ id \in Range(served') \ Range(served)
    /\ calls[id].model_name \notin DOMAIN models

\* The request id was resolved with the error of a model that is not loaded.
C30_NotLoaded(c) == c.future = "exception" /\ c.result = "NotLoaded"

C30_Step ==
    /\ \A id \in 1..Len(calls) : C30_TakenUnloaded(id) =>
          \* the future gets the error, unless its caller cancelled it before
          /\ calls[id].future = "pending" => C30_NotLoaded(calls'[id])
          /\ calls[id].future # "pending" => calls'[id].future = calls[id].future
          \* the engine is not called for it
          /\ calls'[id].engine_calls = 0
          /\ \A e \in executing' \ executing : e.model # calls[id].model_name
          /\ task'.call # id
          \* no load is attempted
          /\ <<models, loaded_models, next_handle, released, mgrOp>>' =
                <<models, loaded_models, next_handle, released, mgrOp>>
          \* nothing is written to the cache
          /\ cacheVars' = cacheVars
          \* the dispatcher goes on with the requests behind it
          /\ task'.state \in {"idle", "running"}
          /\ task'.state = "idle" => request_queue' = <<>>
    \* the caller of such a request writes nothing when it runs again
    /\ \A i \in 1..Len(calls) :
          (C30_NotLoaded(calls[i]) /\ calls'[i].state # calls[i].state)
              => /\ cacheVars' = cacheVars
                 /\ calls'[i].state \in {"raised", "cancelled"}
    \* and the engine is never called for it
    /\ \A i \in 1..Len(calls') : C30_NotLoaded(calls'[i]) => calls'[i].engine_calls = 0

\* C30: a non-streaming request for a model that has no loaded handle when
\* the dispatcher takes it is resolved with a not-loaded error on its future:
\* the engine is never invoked for it, no load is attempted, nothing is
\* written to the cache, and the requests behind it are still processed.
C30_NotLoadedIsAnError == [][C30_Step]_vars

\* A request for a model that is not loaded ended with the not-loaded error
\* without an engine call and without a cache entry, and the request queued
\* behind it, for a loaded model, got its result.
C30_Witness ==
    \E i, j \in 1..Len(calls) :
        /\ calls[i].state = "raised"
        /\ C30_NotLoaded(calls[i])
        /\ calls[i].engine_calls = 0
        /\ calls[i].model_name \notin DOMAIN models
        /\ i \in Range(enqueued) /\ j \in Range(enqueued)
        /\ EnqueuePos(i) < EnqueuePos(j)
        /\ calls[j].future = "result"
        /\ calls[j].engine_calls = 1
        /\ cache = <<>>


(***************************************************************************)
(* Claims about the dispatcher and the worker pool, checked under SpecSvc. *)
(***************************************************************************)
\* C31: the dispatcher hands the head of the queue to a worker as soon as a
\* worker is idle: the dispatcher is never suspended in the engine call of
\* one request while another request is queued and a worker of the pool is
\* idle.
C31_HeadGoesToIdleWorker ==
    (task.state = "running" /\ request_queue # <<>>)
        => Cardinality(executing) >= async_worker_threads


\* The generate_stream generator draws a token from the token sequence of
\* the engine in this step.
C32_TokenDrawn ==
    /\ stream.state = "tokens"
    /\ HasCreateCompletion(stream.model_name)
    /\ Len(stream'.out) = Len(stream.out) + 1
    /\ stream'.out[Len(stream'.out)].kind = "token"

\* C32 (checked under SpecStream): no engine work runs in the event loop:
\* whenever a token is drawn from the token sequence of the engine, an
\* engine call of a worker of the thread pool is running that produces it,
\* and the step is not one of the generator on the event loop alone.
C32_EngineWorkOffTheLoop ==
    [][C32_TokenDrawn => \E e \in executing : e.kind = "stream"]_vars


(***************************************************************************)
(* Claims about memory pressure relief, checked under SpecMgr.             *)
(***************************************************************************)
\* handle_memory_pressure returns in this step, no engine call running.
C33_PressureHandled ==
    /\ mgrOp' # mgrOp
    /\ mgrOp'.op = "pressure"
    /\ executing = {}

\* C33: after handle_memory_pressure returns in a state with no inference in
\* flight and with every unload succeeding, the total registered resident
\* memory is at most the budget, and every model it reports as unloaded is
\* neither loaded nor registered.
C33_PressureRelieved ==
    [][C33_PressureHandled =>
          /\ TotalMemoryUsage(model_memory_usage') <= max_memory_usage'
          /\ \A i \in 1..Len(mgrOp'.unloaded) :
                /\ mgrOp'.unloaded[i] \notin DOMAIN models'
                /\ mgrOp'.unloaded[i] \notin DOMAIN model_memory_usage']_vars


(***************************************************************************)
(* Claims about the sweep and the set of a stored key, checked under       *)
(* SpecCache.                                                              *)
(***************************************************************************)
\* The keys of the sequence r that are stored in c, in the order of r.
C34_Survivors(r, c) == SelectSeq(r, LAMBDA k : Stored(c, k))

C34_Step ==
    /\ cacheOp'.op = "cleanup_expired" =>
          \* every entry older than ttl goes, every other entry stays as it is
          /\ \A i \in 1..Len(cache) :
                IF now - cache[i].timestamp > TTL
                THEN ~Stored(cache', cache[i].key)
                ELSE \E j \in 1..Len(cache') : cache'[j] = cache[i]
          /\ StoredKeys(cache') \subseteq StoredKeys(cache)
          \* the number removed is returned
          /\ cacheOp'.ret = Len(cache) - Len(cache')
          \* the survivors keep their order, in the OrderedDict and in the
          \* record of the last successful get or set of each key
          /\ KeySeq(cache') = C34_Survivors(KeySeq(cache), cache')
          /\ recency' = C34_Survivors(recency, cache')
          \* the next eviction takes the least recently used survivor
          /\ cache' # <<>> =>
                /\ ~Stored(EvictOldest(cache'), Head(C34_Survivors(recency, cache')))
                /\ Len(EvictOldest(cache')) = Len(cache') - 1
    \* a get of a key whose entry is older than ttl removes it
    /\ (cacheOp'.op = "get" /\ cacheOp' # cacheOp /\ cacheOp'.age > TTL) =>
          ~Stored(cache', cacheOp'.key)

\* C34: cleanup_expired removes every entry whose age exceeds ttl and no
\* other entry, returns the number removed, and leaves the relative recency
\* order of the surviving entries unchanged (the next capacity eviction takes
\* the least recently used survivor); a key untouched for longer than ttl is
\* absent after a get or a sweep.
C34_SweepRemovesExpiredOnly == [][C34_Step]_vars

\* After a hit, a sweep removed one entry and kept the entry whose age is
\* exactly ttl.
C34_Witness ==
    /\ cacheOp.op = "cleanup_expired"
    /\ cacheOp.ret = 1
    /\ Len(cache) = 1
    /\ cache[1].timestamp = now - TTL
    /\ hits = 1


(***************************************************************************)
(* Claims about cancelling a request that executes, and about the          *)
(* dispatcher task, checked under SpecSvc.                                 *)
(***************************************************************************)
\* The caller of the request id is cancelled in this step while the engine
\* call of the request runs in the thread pool.
C35_CancelledExecuting(id) ==
    /\ calls[id].future = "pending"
    /\ calls'[id].future = "cancelled"
    /\ task.state = "running"
    /\ task.call = id

\* The dispatcher runs again after the engine call of the request id, whose
\* caller was cancelled, has ended (shutdown, the other step that changes the
\* task, closes the pool).
C35_ResumedCancelled(id) ==
    /\ task.state = "ready"
    /\ task.call = id
    /\ calls[id].future = "cancelled"
    /\ task' # task
    /\ ~pool_down'

C35_Step ==
    \A id \in 1..Len(calls) :
        \* the engine call is not interrupted
        /\ C35_CancelledExecuting(id) =>
              /\ executing' = executing
              /\ task' = task
              /\ calls'[id].engine_calls = 1
        \* its result is discarded: the future stays cancelled, nothing is
        \* written, and the dispatcher goes on with the requests behind it
        /\ C35_ResumedCancelled(id) =>
              /\ calls'[id] = calls[id]
              /\ cacheVars' = cacheVars
              /\ task'.state \in {"idle", "running"}
              /\ task'.state = "idle" => request_queue' = <<>>
              /\ request_queue # <<>> =>
                    /\ Len(served') > Len(served)
                    /\ served'[Len(served) + 1] = Head(request_queue)
        \* the cancelled caller never runs again, so it stores nothing
        /\ calls[id].future = "cancelled" =>
              /\ calls'[id].future = "cancelled"
              /\ calls'[id].state = "cancelled"
              /\ calls'[id].result = None
        \* a caller that stores a result is one that got it
        /\ (calls'[id].state # calls[id].state /\ cache' # cache) =>
              calls[id].future = "result"

\* C35: when the caller cancels while its request executes in the engine,
\* the engine call is not interrupted, its result is discarded without an
\* error in the dispatcher (the future that is done is not resolved again),
\* no cache entry is written for it, and the dispatcher continues with the
\* next queued request.
C35_CancelWhileExecuting == [][C35_Step]_vars

\* A request was cancelled while its one engine call ran, the call ended,
\* nothing was stored, and the request behind it got its result.
C35_Witness ==
    \E i, j \in 1..Len(calls) :
        /\ calls[i].future = "cancelled"
        /\ ~calls[i].cancelled_queued
        /\ calls[i].engine_calls = 1
        /\ executing = {}
        /\ i \in Range(enqueued) /\ j \in Range(enqueued)
        /\ EnqueuePos(i) < EnqueuePos(j)
        /\ calls[j].future = "result"
        /\ cache = <<>>


(***************************************************************************)
(* Claims about registering a tracked model, checked under SpecMem.        *)
(***************************************************************************)
\* register_model_memory is called in this step for a model that is tracked.
C36_RegisteredAgain ==
    /\ memOp' # memOp
    /\ memOp'.op = "register"
    /\ memOp'.model \in DOMAIN model_memory_usage

\* C36: register_model_memory on a model id that is already tracked returns
\* false and leaves that model's resident bytes, last-used time and access
\* count, and every other record, unchanged.
C36_RegisterTrackedIsNoOp ==
    [][C36_RegisteredAgain =>
          /\ ~memOp'.ok
          /\ model_memory_usage' = model_memory_usage
          /\ model_last_used' = model_last_used
          /\ model_access_count' = model_access_count
          /\ max_memory_usage' = max_memory_usage]_vars

\* A model that was used since it was registered, at an earlier time, is
\* registered again and the call returns false.
C36_Witness ==
    /\ memOp.op = "register"
    /\ ~memOp.ok
    /\ memOp.model \in DOMAIN model_access_count
    /\ model_access_count[memOp.model] >= 1
    /\ \E i \in 1..Len(model_last_used) :
          /\ model_last_used[i].name = memOp.model
          /\ model_last_used[i].last_used < now
    /\ Cardinality(DOMAIN model_memory_usage) = 2


\* C37: a set on a key that is already stored replaces only that key's
\* entry: every other key present before the call is still present
\* afterwards, the size is unchanged and the eviction counter is unchanged,
\* including when the cache is at capacity.
C37_SetStoredKeyReplacesOnly ==
    [][(cacheOp'.op = "set" /\ Stored(cache, cacheOp'.key)) =>
          /\ StoredKeys(cache) \subseteq StoredKeys(cache')
          /\ Len(cache') = Len(cache)
          /\ evictions' = evictions]_vars


\* C38: at most one dispatcher task (_process_requests) is alive at any
\* time, for any sequence of start_processing and shutdown calls: the task
\* the service holds is the only one, and a start_processing call that
\* finds it alive creates no second consumer of the queue.
C38_OneDispatcher ==
    /\ consumers <= 1
    /\ consumers = 1 <=> task.state \in {"idle", "running", "ready"}

\* The one dispatcher task executes a request it took from the queue.
C38_Witness ==
    /\ consumers = 1
    /\ started
    /\ task.state = "running"
    /\ Len(served) >= 1


(***************************************************************************)
(* Claims about the two locks, checked under SpecOrderLive.                *)
(***************************************************************************)
\* The thread t is in a call and can take its next step.
C39_CanStep(t) ==
    LET step == NextStep(callers[t]) IN
    \/ step = <<>>
    \/ step[1] = "release"
    \/ Owner(step[2]) \in {0, t}

C39_Safe ==
    \* the ModelManager lock is never asked for with the MemoryManager lock held
    /\ \A t \in LockThreads :
          NextStep(callers[t]) = EnterManager => Depth(callers[t], "memory") = 0
    \* a lock is held by the thread that is inside its blocks
    /\ \A t \in LockThreads :
          /\ lock = t <=> Depth(callers[t], "manager") > 0
          /\ memory_lock = t <=> Depth(callers[t], "memory") > 0
    \* no deadlock: while a thread is in a call, some thread can take a step
    /\ (\E t \in LockThreads : callers[t].op # None)
          => \E t \in LockThreads : callers[t].op # None /\ C39_CanStep(t)

\* C39: no deadlock is reachable between the ModelManager lock and the
\* MemoryManager lock: under any interleaving of load_model, unload_model,
\* get_model, handle_memory_pressure and cleanup with the check of the
\* monitor thread, the locks are taken in the order ModelManager lock then
\* MemoryManager lock, entering a lock again does not block, some thread can
\* always go on, and every call returns.
C39_NoDeadlock ==
    /\ []C39_Safe
    /\ \A t \in LockThreads : (callers[t].op # None) ~> (callers[t].op = None)

\* A thread in handle_memory_pressure holds both locks, the ModelManager
\* lock twice, while another thread waits for the ModelManager lock and the
\* monitor thread waits for the MemoryManager lock.
C39_Witness ==
    \E t, w \in Threads :
        /\ callers[t].op = "pressure"
        /\ Depth(callers[t], "manager") = 2
        /\ Depth(callers[t], "memory") = 1
        /\ w # t
        /\ NextStep(callers[w]) = EnterManager
        /\ NextStep(callers[MonitorThread]) = EnterMemory
        /\ Depth(callers[MonitorThread], "memory") = 0


(***************************************************************************)
(* Claims about the loaded set of the ModelManager and the handles of the  *)
(* ModelLoader, checked under SpecLife.                                    *)
(***************************************************************************)
\* C40: after any sequence of load_model and unload_model calls the loaded
\* set of the ModelManager and loaded_models of the ModelLoader correspond
\* one to one: every model the manager lists has its own handle, not closed,
\* recorded in the loader, and the loader holds no entry but those of the
\* models the manager lists, also for names that sanitize to the same key.
C40_LoadedSetsCorrespond ==
    /\ \A m \in DOMAIN models :
          /\ LoaderHas(loaded_models, m)
          /\ loaded_models[Sanitize(m)] = models[m]
          /\ models[m] \notin released
    /\ \A k \in DOMAIN loaded_models :
          \E m \in DOMAIN models : Sanitize(m) = k /\ loaded_models[k] = models[m]

====
